---- MODULE Spec2Model ----
(***************************************************************************)
(* Signaling relay of the group video chat (signaling-server.js,           *)
(* initSignaling): the room registry `channels`, the member table          *)
(* `sockets`, every socket's own `socket.channels`, and the handlers       *)
(* connection, disconnect, join, part, relayICECandidate and               *)
(* relaySessionDescription.  One action is one run of one handler: the     *)
(* server is a single-threaded event loop and no handler awaits.           *)
(***************************************************************************)
EXTENDS Integers, Sequences, FiniteSets, TLC

\* Number of connections the server accepts in one run of the model.
MaxConns == 3

\* socket.id: assigned by the server, unique per connection.
SocketId(n) == "s" \o ToString(n)
SocketIds == {SocketId(n) : n \in 1..MaxConns}

\* Property names every object literal {} inherits from Object.prototype;
\* the `in` operator finds them although they are no own keys.
InheritedKeys == {"constructor"}

\* Inputs of the handlers: config.channel, config.peer_id and the opaque
\* payloads config.ice_candidate / config.session_description.
RoomNames == {"r1", "r2"}
ChannelNames == RoomNames \cup InheritedKeys
PeerIdInputs == SocketIds \cup InheritedKeys
IceCandidates == {"cand1", "cand2"}
SessionDescriptions == {"offer", "answer"}

VARIABLES
    sockets,       \* own keys of `sockets` (the global member table)
    channels,      \* `channels`: channel name -> ids in insertion order
    sockChannels,  \* socket.channels of every socket: names in insertion order
    nextConn,      \* number of the next connection to accept
    emitted,       \* the emit calls of the handler that ran last, in order
    lastOp,        \* the event that handler was run for
    thrown,        \* a handler raised an uncaught TypeError
    everJoined,    \* history: the connected ids some join has added to a room
    room,          \* the room machine's actor: state value, context, tracks
    client,        \* one mounted VideoChat component: its refs and its socket
    mesh           \* the components of the members of one room and the
                   \* messages in flight between them and the relay

vars == <<sockets, channels, sockChannels, nextConn, emitted, lastOp, thrown,
          everJoined, room, client, mesh>>

\* The relay's own state, which no client-side step touches.
relayVars == <<sockets, channels, sockChannels, nextConn, emitted, thrown,
               everJoined>>

----------------------------------------------------------------------------
\* Objects used as insertion-ordered maps.

Has(seq, x) == \E i \in 1..Len(seq) : seq[i] = x
Keys(seq) == {seq[i] : i \in 1..Len(seq)}
Put(seq, x) == IF Has(seq, x) THEN seq ELSE Append(seq, x)
Delete(seq, x) == SelectSeq(seq, LAMBDA y : y # x)

\* Members of room c (own keys of channels[c]); empty when there is no entry.
Members(ch, c) == IF c \in DOMAIN ch THEN Keys(ch[c]) ELSE {}

----------------------------------------------------------------------------
\* The emit calls.

AddPeer(to, peer, offer) ==
    [to |-> to, event |-> "addPeer", peer_id |-> peer, should_create_offer |-> offer]
RemovePeer(to, peer) ==
    [to |-> to, event |-> "removePeer", peer_id |-> peer]
IceCandidateMsg(to, from, cand) ==
    [to |-> to, event |-> "iceCandidate", peer_id |-> from, ice_candidate |-> cand]
SessionDescriptionMsg(to, from, desc) ==
    [to |-> to, event |-> "sessionDescription", peer_id |-> from,
     session_description |-> desc]

----------------------------------------------------------------------------
\* io.on('connection'): the socket is entered in the member table at once.

RegisterSocket(tbl, s) == tbl \cup {s}

ConnectionHandler ==
    /\ ~thrown
    /\ nextConn <= MaxConns
    /\ LET s == SocketId(nextConn) IN
        /\ sockChannels' = [sockChannels EXCEPT ![s] = <<>>]
        /\ sockets' = RegisterSocket(sockets, s)
        /\ lastOp' = [op |-> "connection", id |-> s]
    /\ nextConn' = nextConn + 1
    /\ emitted' = <<>>
    /\ UNCHANGED <<channels, thrown, everJoined>>

Connection ==
    /\ ConnectionHandler
    /\ UNCHANGED <<room, client, mesh>>

----------------------------------------------------------------------------
\* socket.on('join')

\* Variant: the duplicate check is missing.
JoinRejected_Never(s, c) == c \in InheritedKeys

\* Variant: a socket that is in any room is turned away.
JoinRejected_AnyRoom(s, c) == c \in InheritedKeys \/ sockChannels[s] # <<>>

\* `channel in socket.channels`
JoinRejected(s, c) == c \in InheritedKeys \/ Has(sockChannels[s], c)

\* `channel in channels`
InChannels(c) == c \in InheritedKeys \/ c \in DOMAIN channels

\* Variant: both sides are told to create the offer.
JoinFanout_BothOffer(s, ids) ==
    [k \in 1..(2 * Len(ids)) |->
        IF k % 2 = 1 THEN AddPeer(ids[(k + 1) \div 2], s, TRUE)
                     ELSE AddPeer(s, ids[k \div 2], TRUE)]

\* Variant: the flags of the two emits are exchanged.
JoinFanout_SwappedRoles(s, ids) ==
    [k \in 1..(2 * Len(ids)) |->
        IF k % 2 = 1 THEN AddPeer(ids[(k + 1) \div 2], s, TRUE)
                     ELSE AddPeer(s, ids[k \div 2], FALSE)]

\* Variant: only the joining socket is told of the pairs.
JoinFanout_NewcomerOnly(s, ids) ==
    [k \in 1..Len(ids) |-> AddPeer(s, ids[k], TRUE)]

\* Variant: the loop runs over a snapshot taken before the most recent
\* member was inserted, as if two join handlers had overlapped.
JoinFanout_StaleSnapshot(s, ids) ==
    [k \in 1..(2 * (Len(ids) - 1)) |->
        IF k % 2 = 1 THEN AddPeer(ids[(k + 1) \div 2], s, FALSE)
                     ELSE AddPeer(s, ids[k \div 2], TRUE)]

\* the loop over the ids already in the room: two emits per id
JoinFanout(s, ids) ==
    [k \in 1..(2 * Len(ids)) |->
        IF k % 2 = 1 THEN AddPeer(ids[(k + 1) \div 2], s, FALSE)
                     ELSE AddPeer(s, ids[k \div 2], TRUE)]

JoinHandler(s, c) ==
    /\ ~thrown
    /\ s \in sockets
    /\ lastOp' = [op |-> "join", id |-> s, channel |-> c]
    /\ IF JoinRejected(s, c)
       THEN /\ emitted' = <<>>
            /\ UNCHANGED <<channels, sockChannels, everJoined>>
       ELSE LET ch1 == IF InChannels(c) THEN channels ELSE channels @@ (c :> <<>>)
            IN /\ emitted' = JoinFanout(s, ch1[c])
               /\ channels' = [ch1 EXCEPT ![c] = Put(@, s)]
               /\ sockChannels' = [sockChannels EXCEPT ![s] = Put(@, c)]
               /\ everJoined' = everJoined \cup {s}
    /\ UNCHANGED <<sockets, nextConn, thrown>>

Join(s, c) ==
    /\ JoinHandler(s, c)
    /\ UNCHANGED <<room, client, mesh>>

----------------------------------------------------------------------------
\* function part(channel), on a registry st = [channels, sockChannels, emitted]

\* `!(channel in socket.channels)`
PartRejected(st, s, c) == ~(c \in InheritedKeys \/ Has(st.sockChannels[s], c))

\* Variant: the leaving socket is not told of the members it leaves behind.
PartFanout_OthersOnly(s, ids) ==
    [k \in 1..Len(ids) |-> RemovePeer(ids[k], s)]

\* the loop over the ids left in the room: two emits per id
PartFanout(s, ids) ==
    [k \in 1..(2 * Len(ids)) |->
        IF k % 2 = 1 THEN RemovePeer(ids[(k + 1) \div 2], s)
                     ELSE RemovePeer(s, ids[k \div 2])]

\* Variant: the loop runs before the two deletes.
PartStep_FanoutBeforeDelete(st, s, c) ==
    IF PartRejected(st, s, c) THEN st
    ELSE IF c \notin DOMAIN st.channels
    THEN st
    ELSE [channels |-> [st.channels EXCEPT ![c] = Delete(@, s)],
          sockChannels |-> [st.sockChannels EXCEPT ![s] = Delete(@, c)],
          emitted |-> st.emitted \o PartFanout(s, st.channels[c])]

\* Variant: the socket's own record of the room is kept.
PartStep_RoomIndexOnly(st, s, c) ==
    IF PartRejected(st, s, c) THEN st
    ELSE IF c \notin DOMAIN st.channels
    THEN st
    ELSE LET left == Delete(st.channels[c], s) IN
         [channels |-> [st.channels EXCEPT ![c] = left],
          sockChannels |-> st.sockChannels,
          emitted |-> st.emitted \o PartFanout(s, left)]

PartStep(st, s, c) ==
    IF PartRejected(st, s, c) THEN st
    ELSE IF c \notin DOMAIN st.channels
    THEN st   \* an inherited name: both deletes and the loop find nothing
    ELSE LET left == Delete(st.channels[c], s) IN
         [channels |-> [st.channels EXCEPT ![c] = left],
          sockChannels |-> [st.sockChannels EXCEPT ![s] = Delete(@, c)],
          emitted |-> st.emitted \o PartFanout(s, left)]

Registry == [channels |-> channels, sockChannels |-> sockChannels, emitted |-> <<>>]

PartHandler(s, c) ==
    /\ ~thrown
    /\ s \in sockets
    /\ lastOp' = [op |-> "part", id |-> s, channel |-> c]
    /\ LET st == PartStep(Registry, s, c) IN
        /\ channels' = st.channels
        /\ sockChannels' = st.sockChannels
        /\ emitted' = st.emitted
    /\ UNCHANGED <<sockets, nextConn, thrown, everJoined>>

Part(s, c) ==
    /\ PartHandler(s, c)
    /\ UNCHANGED <<room, client, mesh>>

----------------------------------------------------------------------------
\* socket.on('disconnect')

\* for (const channel in socket.channels) part(channel): the keys are those
\* the loop started with; one deleted before its turn is skipped.
\* Variant: the loop stops after the first channel.
PartAll_FirstOnly(st, s, names) ==
    IF names = <<>> THEN st ELSE PartStep(st, s, Head(names))

RECURSIVE PartAll(_, _, _)
PartAll(st, s, names) ==
    IF names = <<>> THEN st
    ELSE LET c == Head(names) IN
         PartAll(IF Has(st.sockChannels[s], c) THEN PartStep(st, s, c) ELSE st,
                 s, Tail(names))

\* delete sockets[socket.id]
UnregisterSocket(tbl, s) == tbl \ {s}

DisconnectHandler(s) ==
    /\ ~thrown
    /\ s \in sockets
    /\ lastOp' = [op |-> "disconnect", id |-> s]
    /\ LET st == PartAll(Registry, s, sockChannels[s]) IN
        /\ channels' = st.channels
        /\ sockChannels' = st.sockChannels
        /\ emitted' = st.emitted
    /\ sockets' = UnregisterSocket(sockets, s)
    /\ everJoined' = everJoined \ {s}
    /\ UNCHANGED <<nextConn, thrown>>

Disconnect(s) ==
    /\ DisconnectHandler(s)
    /\ UNCHANGED <<room, client, mesh>>

----------------------------------------------------------------------------
\* socket.on('relayICECandidate') and socket.on('relaySessionDescription')

\* Variant: only a socket that is in a room is found.
RelayTargetFound_JoinedOnly(p) ==
    p \in InheritedKeys \/ (p \in sockets /\ sockChannels[p] # <<>>)

\* `peer_id in sockets`
RelayTargetFound(p) == p \in InheritedKeys \/ p \in sockets

\* sockets[peer_id].emit(...): an inherited value has no emit method
RelayThrows(p) == RelayTargetFound(p) /\ p \notin sockets

RelayICECandidateEmits(s, p, cand) ==
    IF RelayTargetFound(p) /\ ~RelayThrows(p)
    THEN <<IceCandidateMsg(p, s, cand)>> ELSE <<>>

\* Variant: the message is tagged with the target's id, not the sender's.
RelaySessionDescriptionEmits_TagTarget(s, p, desc) ==
    IF RelayTargetFound(p) /\ ~RelayThrows(p)
    THEN <<SessionDescriptionMsg(p, p, desc)>> ELSE <<>>

RelaySessionDescriptionEmits(s, p, desc) ==
    IF RelayTargetFound(p) /\ ~RelayThrows(p)
    THEN <<SessionDescriptionMsg(p, s, desc)>> ELSE <<>>

RelayICECandidateHandler(s, p, cand) ==
    /\ ~thrown
    /\ s \in sockets
    /\ lastOp' = [op |-> "relayICECandidate", id |-> s, peer_id |-> p,
                  ice_candidate |-> cand]
    /\ emitted' = RelayICECandidateEmits(s, p, cand)
    /\ thrown' = RelayThrows(p)
    /\ UNCHANGED <<sockets, channels, sockChannels, nextConn, everJoined>>

RelayICECandidate(s, p, cand) ==
    /\ RelayICECandidateHandler(s, p, cand)
    /\ UNCHANGED <<room, client, mesh>>

RelaySessionDescriptionHandler(s, p, desc) ==
    /\ ~thrown
    /\ s \in sockets
    /\ lastOp' = [op |-> "relaySessionDescription", id |-> s, peer_id |-> p,
                  session_description |-> desc]
    /\ emitted' = RelaySessionDescriptionEmits(s, p, desc)
    /\ thrown' = RelayThrows(p)
    /\ UNCHANGED <<sockets, channels, sockChannels, nextConn, everJoined>>

RelaySessionDescription(s, p, desc) ==
    /\ RelaySessionDescriptionHandler(s, p, desc)
    /\ UNCHANGED <<room, client, mesh>>

----------------------------------------------------------------------------
\* The room machine (roomMachine, XState): one actor.

Null == "null"

\* Inputs of the machine's events.
LocalStreams == {"m1", "m2"}
RemoteStreams == {"v1", "v2"}
RemotePeerIds == {"p1", "p2"}
ErrorMessages == {"denied"}

FinalStates == {"disconnected", "error", "left"}

\* The context after createMachine's context factory and the initial state;
\* tracks holds the state of the MediaStreamTracks of the local stream the
\* actor has been handed (none yet).
InitialContext ==
    [value |-> "requestingMedia",
     localStream |-> Null,
     peerList |-> <<>>,
     spotlightPeerId |-> Null,
     isAudioMuted |-> FALSE,
     isVideoMuted |-> FALSE,
     error |-> Null,
     tracks |-> [stream |-> Null, stopped |-> FALSE,
                 audioEnabled |-> TRUE, videoEnabled |-> TRUE]]

\* The tracks of a stream as getUserMedia delivers it: live and enabled.
FreshTracks(stream) ==
    [stream |-> stream, stopped |-> FALSE,
     audioEnabled |-> TRUE, videoEnabled |-> TRUE]

PeerIds(list) == {list[i].id : i \in 1..Len(list)}

setLocalStream_Ignored(ctx, ev) == ctx

setLocalStream(ctx, ev) ==
    [ctx EXCEPT !.localStream = ev.stream, !.tracks = FreshTracks(ev.stream)]

setError(ctx, ev) == [ctx EXCEPT !.error = ev.error]

addPeer_NoDedup(ctx, ev) ==
    [ctx EXCEPT !.peerList = Append(@, [id |-> ev.peerId, stream |-> ev.stream])]

addPeer(ctx, ev) ==
    IF \E i \in 1..Len(ctx.peerList) : ctx.peerList[i].id = ev.peerId
    THEN ctx
    ELSE [ctx EXCEPT !.peerList = Append(@, [id |-> ev.peerId, stream |-> ev.stream])]

removePeer_KeepSpotlight(ctx, ev) ==
    [ctx EXCEPT !.peerList = SelectSeq(@, LAMBDA p : p.id # ev.peerId)]

removePeer(ctx, ev) ==
    [ctx EXCEPT !.peerList = SelectSeq(@, LAMBDA p : p.id # ev.peerId),
                !.spotlightPeerId = IF @ = ev.peerId THEN Null ELSE @]

setSpotlight(ctx, ev) == [ctx EXCEPT !.spotlightPeerId = ev.peerId]

toggleAudio_FlagOnly(ctx) == [ctx EXCEPT !.isAudioMuted = ~@]

toggleAudio(ctx) ==
    LET muted == ~ctx.isAudioMuted IN
    [ctx EXCEPT !.isAudioMuted = muted,
                !.tracks.audioEnabled = IF ctx.localStream = Null THEN @ ELSE ~muted]

toggleVideo(ctx) ==
    LET muted == ~ctx.isVideoMuted IN
    [ctx EXCEPT !.isVideoMuted = muted,
                !.tracks.videoEnabled = IF ctx.localStream = Null THEN @ ELSE ~muted]

cleanup_KeepPeers(ctx) ==
    [ctx EXCEPT !.localStream = Null,
                !.tracks.stopped = IF ctx.localStream = Null THEN @ ELSE TRUE,
                !.spotlightPeerId = Null,
                !.error = Null]

cleanup_KeepStream(ctx) ==
    [ctx EXCEPT !.peerList = <<>>, !.spotlightPeerId = Null, !.error = Null]

cleanup(ctx) ==
    [ctx EXCEPT !.localStream = Null,
                !.tracks.stopped = IF ctx.localStream = Null THEN @ ELSE TRUE,
                !.peerList = <<>>,
                !.spotlightPeerId = Null,
                !.error = Null]

\* An actor whose machine has reached a top-level final state has stopped
\* and drops every event sent to it, the root-level LEAVE included.
ActorStopped_RootStillListens(ctx, ev) ==
    ctx.value \in FinalStates /\ ev.type # "LEAVE"

ActorStopped(ctx, ev) == ctx.value \in FinalStates

\* MEDIA_READY and MEDIA_ERROR are declared by requestingMedia alone.
MediaAccepted_AnyState(ctx) == TRUE

MediaAccepted(ctx) == ctx.value = "requestingMedia"

\* The transition the machine takes for event ev: the state's own `on`
\* first, then the root's; an event with no transition changes nothing.
Transition(ctx, ev) ==
    CASE MediaAccepted(ctx) /\ ev.type = "MEDIA_READY" ->
            [setLocalStream(ctx, ev) EXCEPT !.value = "connecting"]
      [] MediaAccepted(ctx) /\ ev.type = "MEDIA_ERROR" ->
            [setError(ctx, ev) EXCEPT !.value = "error"]
      [] ctx.value = "connecting" /\ ev.type = "SOCKET_CONNECTED" ->
            [ctx EXCEPT !.value = "connected"]
      [] ctx.value = "connecting" /\ ev.type = "SOCKET_DISCONNECTED" ->
            [cleanup(ctx) EXCEPT !.value = "disconnected"]
      [] ctx.value = "connected" /\ ev.type = "PEER_ADDED" -> addPeer(ctx, ev)
      [] ctx.value = "connected" /\ ev.type = "PEER_REMOVED" -> removePeer(ctx, ev)
      [] ctx.value = "connected" /\ ev.type = "SPOTLIGHT" -> setSpotlight(ctx, ev)
      [] ctx.value = "connected" /\ ev.type = "TOGGLE_AUDIO" -> toggleAudio(ctx)
      [] ctx.value = "connected" /\ ev.type = "TOGGLE_VIDEO" -> toggleVideo(ctx)
      [] ctx.value = "connected" /\ ev.type = "SOCKET_DISCONNECTED" ->
            [cleanup(ctx) EXCEPT !.value = "disconnected"]
      [] ev.type = "LEAVE" -> [cleanup(ctx) EXCEPT !.value = "left"]
      [] OTHER -> ctx

\* actor.send(ev); lastOp keeps the event and the snapshot it was sent to.
Send(ev) ==
    /\ room' = IF ActorStopped(room, ev) THEN room ELSE Transition(room, ev)
    /\ lastOp' = [op |-> "send", event |-> ev, before |-> room]
    /\ UNCHANGED relayVars
    /\ UNCHANGED <<client, mesh>>

\* The events, each sent to the actor in whatever state it is in.
MEDIA_READY(stream) ==
    /\ Send([type |-> "MEDIA_READY", stream |-> stream])
MEDIA_ERROR(error) ==
    /\ Send([type |-> "MEDIA_ERROR", error |-> error])
SOCKET_CONNECTED ==
    /\ Send([type |-> "SOCKET_CONNECTED"])
SOCKET_DISCONNECTED ==
    /\ Send([type |-> "SOCKET_DISCONNECTED"])
PEER_ADDED(peerId, stream) ==
    /\ Send([type |-> "PEER_ADDED", peerId |-> peerId, stream |-> stream])
PEER_REMOVED(peerId) ==
    /\ Send([type |-> "PEER_REMOVED", peerId |-> peerId])
SPOTLIGHT(peerId) ==
    /\ Send([type |-> "SPOTLIGHT", peerId |-> peerId])
TOGGLE_AUDIO ==
    /\ Send([type |-> "TOGGLE_AUDIO"])
TOGGLE_VIDEO ==
    /\ Send([type |-> "TOGGLE_VIDEO"])
LEAVE ==
    /\ Send([type |-> "LEAVE"])

----------------------------------------------------------------------------
\* The connection controller (VideoChat.tsx): one mounted component, its
\* socket, its local media and its peer links.  A handler runs to its next
\* await in one step; the awaits that leave room for other events
\* (getUserMedia, enumerateDevices) are steps of their own.

\* RTCPeerConnections created and getUserMedia calls made in one run.
MaxLinks == 2
MaxAcquisitions == 1

\* Candidates the remote side sends.
RemoteCandidates == {"cand1"}

\* localStreamRef.current = null; the streams are numbered from 1.
NullRef == 0

\* The two kinds of track of the local stream.
Kinds == {"audio", "video"}

\* A peer connection created without a local stream has no sender.
NoTrack == -1

\* The tracks of a stream getUserMedia has just delivered: the track of
\* either kind is numbered 0 and enabled; a track a device swap brings in
\* carries the number of the swap.
FreshLocal == [k \in Kinds |-> [id |-> 0, enabled |-> TRUE]]

\* No replaceTrack call is running.
NoSwap ==
    [phase |-> "idle", kind |-> "audio", captured |-> FALSE, track |-> 0,
     snapshot |-> <<>>, todo |-> <<>>]

\* The component after its first render and effect: io() has been called and
\* no event has arrived yet.
\*   socket         opening | connected | reconnecting | closed
\*   joined         a join of this connection has reached the relay
\*   sendBuffer     join packets emitted while the socket was not connected
\*   localStreamRef index into streams, or NullRef
\*   streams        the streams getUserMedia has delivered
\*   pendingMedia   setupLocalMedia calls awaiting getUserMedia
\*   pendingJoin    setupLocalMedia calls awaiting enumerateDevices
\*   peersRef       peer id -> the RTCPeerConnection entered for it
\*   created        RTCPeerConnections created so far
\*   released       for every connection whose entry has left peersRef, in
\*                  that order, the close() calls it had received by then
\*   muted          isAudioMuted and isVideoMuted
\*   local          the track of either kind in the local stream
\*   swaps          replaceTrack calls that reached getUserMedia
\*   swap           the running replaceTrack call: its phase (idle |
\*                  acquiring | replacing), the kind, the mute flag its
\*                  closure holds, the new track, the connections
\*                  Object.values(peersRef.current) gave it and those the
\*                  loop has still to visit, the first one being awaited
\*   tasks          the handshake calls that are awaited, in the order in
\*                  which they were made: the connection, its peer id, the
\*                  received description and the awaited call
\*   failed, left, joinSentAfterFailure, joinSentAfterLeave: history
\*   lost           history: a 'disconnect' the component did not ask for
\*                  has been reported
ClientInit ==
    [socket |-> "opening",
     joined |-> FALSE,
     sendBuffer |-> 0,
     localStreamRef |-> NullRef,
     streams |-> <<>>,
     acquisitions |-> 0,
     pendingMedia |-> 0,
     pendingJoin |-> 0,
     peersRef |-> <<>>,
     created |-> 0,
     released |-> <<>>,
     muted |-> [k \in Kinds |-> FALSE],
     local |-> FreshLocal,
     swaps |-> 0,
     swap |-> NoSwap,
     tasks |-> <<>>,
     failed |-> FALSE,
     left |-> FALSE,
     lost |-> FALSE,
     joinSentAfterFailure |-> FALSE,
     joinSentAfterLeave |-> FALSE]

\* One join packet handed to the transport.
JoinSent(c) ==
    [c EXCEPT !.joined = TRUE,
              !.joinSentAfterFailure = @ \/ c.failed,
              !.joinSentAfterLeave = @ \/ c.left]

\* socket.emit('join', ...): sent when the socket is connected, kept in the
\* socket's send buffer otherwise.
EmitJoin(c) ==
    IF c.socket = "connected" THEN JoinSent(c)
    ELSE [c EXCEPT !.sendBuffer = @ + 1]

\* track.stop() on every track of the local stream, and the ref reset.
StopLocalStream_KeepTracks(c) == [c EXCEPT !.localStreamRef = NullRef]

StopLocalStream(c) ==
    IF c.localStreamRef = NullRef THEN c
    ELSE [c EXCEPT !.streams[c.localStreamRef].stopped = TRUE,
                   !.localStreamRef = NullRef]

\* Object.values(peersRef.current).forEach(peer => peer.close()), then
\* peersRef.current = {}.
RECURSIVE ReleaseAll(_, _)
ReleaseAll(conns, ids) ==
    IF ids = {} THEN <<>>
    ELSE LET p == CHOOSE q \in ids : TRUE
         IN <<conns[p].closeCalls>> \o ReleaseAll(conns, ids \ {p})

ClosePeers_KeepEntries(c) ==
    [c EXCEPT !.peersRef = [p \in DOMAIN @ |-> [@[p] EXCEPT !.closeCalls = @ + 1]]]

ClosePeers(c) ==
    LET closed == [p \in DOMAIN c.peersRef |->
                      [c.peersRef[p] EXCEPT !.closeCalls = @ + 1]]
    IN [c EXCEPT !.released = @ \o ReleaseAll(closed, DOMAIN closed),
                 !.peersRef = <<>>]

Cleanup(c) == ClosePeers(StopLocalStream(c))

\* setupLocalMedia up to its first await: nothing to do when a stream is
\* held, else a getUserMedia call is pending.
setupLocalMedia(c) ==
    IF c.localStreamRef # NullRef THEN EmitJoin(c)
    ELSE [c EXCEPT !.pendingMedia = @ + 1, !.acquisitions = @ + 1]

\* new RTCPeerConnection for peerId, entered into peersRef, with the local
\* tracks added when a stream is held.  gen numbers the connections in the
\* order of their creation; senders is the track each sender carries.
NewConn(c, peerId, offer) ==
    [closeCalls |-> 0, offerer |-> offer, remoteSet |-> FALSE,
     applied |-> {}, rejected |-> {}, localStream |-> c.localStreamRef,
     afterFailure |-> c.failed,
     signaling |-> "stable",
     gen |-> c.created + 1,
     senders |-> [k \in Kinds |->
                    IF c.localStreamRef = NullRef THEN NoTrack ELSE c.local[k].id]]

handleAddPeer(c, peerId, offer) ==
    IF peerId \in DOMAIN c.peersRef THEN c
    ELSE [c EXCEPT !.peersRef = @ @@ (peerId :> NewConn(c, peerId, offer)),
                   !.created = @ + 1]

\* Variant: the connection is closed and its entry is kept.
handleRemovePeer_KeepEntry(c, peerId) ==
    IF peerId \in DOMAIN c.peersRef
    THEN [c EXCEPT !.peersRef[peerId].closeCalls = @ + 1]
    ELSE c

handleRemovePeer(c, peerId) ==
    IF peerId \in DOMAIN c.peersRef
    THEN [c EXCEPT !.released = Append(@, c.peersRef[peerId].closeCalls + 1),
                   !.peersRef = [q \in DOMAIN @ \ {peerId} |-> @[q]]]
    ELSE c

\* setRemoteDescription succeeds for an offer on the answering side and for
\* an answer on the offering side; any other description is rejected and
\* the rejection is caught.
RemoteDescriptionAccepted(conn, desc) ==
    \/ desc = "offer" /\ ~conn.offerer
    \/ desc = "answer" /\ conn.offerer

\* Variant: a description from an unknown sender gets a connection of its
\* own.
handleSessionDescription_LinkOnDemand(c, peerId, desc) ==
    LET c1 == IF peerId \in DOMAIN c.peersRef THEN c
              ELSE [c EXCEPT !.peersRef = @ @@ (peerId :> NewConn(c, peerId, FALSE)),
                             !.created = @ + 1]
    IN IF RemoteDescriptionAccepted(c1.peersRef[peerId], desc)
       THEN [c1 EXCEPT !.peersRef[peerId].remoteSet = TRUE]
       ELSE c1

handleSessionDescription(c, peerId, desc) ==
    IF peerId \notin DOMAIN c.peersRef THEN c
    ELSE IF RemoteDescriptionAccepted(c.peersRef[peerId], desc)
         THEN [c EXCEPT !.peersRef[peerId].remoteSet = TRUE]
         ELSE c

\* What handleSessionDescription sends to the relay: the answer to an offer
\* it has applied, addressed to the sender of the offer.
SessionDescriptionEmits(c, peerId, desc) ==
    IF /\ peerId \in DOMAIN c.peersRef
       /\ desc = "offer"
       /\ RemoteDescriptionAccepted(c.peersRef[peerId], desc)
    THEN << [event |-> "relaySessionDescription", peer_id |-> peerId,
             session_description |-> "answer"] >>
    ELSE << >>

\* peer.addIceCandidate(candidate): a connection without a remote description
\* rejects the call (InvalidStateError) and the candidate is gone; nothing
\* holds it back for later.
handleIceCandidate(c, peerId, cand) ==
    IF peerId \notin DOMAIN c.peersRef THEN c
    ELSE IF c.peersRef[peerId].remoteSet
         THEN [c EXCEPT !.peersRef[peerId].applied = @ \cup {cand}]
         ELSE [c EXCEPT !.peersRef[peerId].rejected = @ \cup {cand}]

\* handleLeave: cleanup(), socket.disconnect() (which fires 'disconnect',
\* hence cleanup(), on a connected socket), then onLeave() unmounts the
\* component, whose effect cleanup runs cleanup() and disconnect() again.
handleLeave(c) ==
    LET c1 == Cleanup(c)
        c2 == IF c1.socket = "connected" THEN Cleanup(c1) ELSE c1
        c3 == [c2 EXCEPT !.socket = "closed", !.joined = FALSE]
    IN [Cleanup(c3) EXCEPT !.left = TRUE]

\* The connections that are in peersRef, none of them closed.
OpenGens(c) == {c.peersRef[p].gen : p \in DOMAIN c.peersRef}

PeerOf(c, g) == CHOOSE p \in DOMAIN c.peersRef : c.peersRef[p].gen = g

\* Handshake calls awaited at one time.
MaxTasks == 2

\* A call is made on a connection: it settles after the calls made on that
\* connection before it.  The calls are kept connection by connection, the
\* order between calls on different connections being of no effect.
Await(tasks, t) ==
    LET before == {j \in 1..Len(tasks) : tasks[j].gen <= t.gen}
        n == Cardinality(before)
    IN [j \in 1..(Len(tasks) + 1) |->
           IF j <= n THEN tasks[j] ELSE IF j = n + 1 THEN t ELSE tasks[j - 1]]

\* Variant: an offer is created whatever should_create_offer says.
addPeerCalled_AlwaysOffer(c, peerId, offer) ==
    IF peerId \in DOMAIN c.peersRef THEN c
    ELSE [c EXCEPT !.peersRef = @ @@ (peerId :> NewConn(c, peerId, TRUE)),
                   !.created = @ + 1,
                   !.tasks = Await(@, [gen |-> c.created + 1, peer |-> peerId,
                                       desc |-> "none", step |-> "createOffer"])]

\* Variant: the check for an entry is missing and the entry is replaced.
addPeerCalled_Replace(c, peerId, offer) ==
    LET c1 == [c EXCEPT !.peersRef = (peerId :> NewConn(c, peerId, offer)) @@ @,
                        !.created = @ + 1]
    IN IF offer
       THEN [c1 EXCEPT !.tasks = Await(@, [gen |-> c.created + 1, peer |-> peerId,
                                           desc |-> "none", step |-> "createOffer"])]
       ELSE c1

\* handleAddPeer up to its first await: the connection is created and
\* entered, and createOffer is awaited when an offer is asked for.
addPeerCalled(c, peerId, offer) ==
    IF peerId \in DOMAIN c.peersRef THEN c
    ELSE LET c1 == [c EXCEPT !.peersRef = @ @@ (peerId :> NewConn(c, peerId, offer)),
                             !.created = @ + 1]
         IN IF offer
            THEN [c1 EXCEPT !.tasks = Await(@, [gen |-> c.created + 1, peer |-> peerId,
                                                desc |-> "none", step |-> "createOffer"])]
            ELSE c1

\* handleSessionDescription up to its first await: setRemoteDescription is
\* awaited on the connection entered for the sender, if there is one.
sessionDescriptionCalled(c, peerId, desc) ==
    IF peerId \notin DOMAIN c.peersRef THEN c
    ELSE [c EXCEPT !.tasks = Await(@, [gen |-> c.peersRef[peerId].gen, peer |-> peerId,
                                       desc |-> desc, step |-> "setRemoteDescription"])]

\* The awaited call of a task succeeds.  Every call fails on a closed
\* connection.  On an open one createOffer succeeds, a local offer is set
\* unless a remote offer is being answered, a remote answer is set when a
\* local offer is out, a remote offer is set unless a local offer is out,
\* in which case the browser either rolls the local offer back or rejects
\* the remote one, and an answer is created and set when a remote offer is
\* there.
CallSucceeds(c, t, rollback) ==
    /\ t.gen \in OpenGens(c)
    /\ LET state == c.peersRef[PeerOf(c, t.gen)].signaling
       IN CASE t.step = "createOffer" -> TRUE
            [] t.step = "setLocalOffer" -> state # "have-remote-offer"
            [] t.step = "setRemoteDescription" ->
                 IF t.desc = "answer" THEN state = "have-local-offer"
                 ELSE state # "have-local-offer" \/ rollback
            [] t.step = "createAnswer" -> state = "have-remote-offer"
            [] t.step = "setLocalAnswer" -> state = "have-remote-offer"

\* Variant: a remote offer is set and not answered.
NextCall_NoAnswer(t) ==
    CASE t.step = "createOffer" -> "setLocalOffer"
      [] t.step = "setLocalOffer" -> "emit"
      [] t.step = "setRemoteDescription" -> "return"
      [] t.step = "createAnswer" -> "setLocalAnswer"
      [] t.step = "setLocalAnswer" -> "emit"

\* The call the handler makes after the awaited one, "emit" when the
\* description is sent next and "return" when the handler is through.
NextCall(t) ==
    CASE t.step = "createOffer" -> "setLocalOffer"
      [] t.step = "setLocalOffer" -> "emit"
      [] t.step = "setRemoteDescription" -> IF t.desc = "offer" THEN "createAnswer" ELSE "return"
      [] t.step = "createAnswer" -> "setLocalAnswer"
      [] t.step = "setLocalAnswer" -> "emit"

\* A failed call inside the try block of its handler ends in the catch;
\* every handshake call is inside one.
Caught_OfferOutsideTry(t) == t.desc # "none"

Caught(t) == TRUE

\* What a successful call does to its connection.
Negotiated(conn, t) ==
    CASE t.step = "setLocalOffer" -> [conn EXCEPT !.signaling = "have-local-offer"]
      [] t.step = "setRemoteDescription" ->
           [conn EXCEPT !.remoteSet = TRUE,
                        !.signaling = IF t.desc = "offer" THEN "have-remote-offer"
                                      ELSE "stable"]
      [] t.step = "setLocalAnswer" -> [conn EXCEPT !.signaling = "stable"]
      [] OTHER -> conn

Without(seq, i) == [j \in 1..(Len(seq) - 1) |-> IF j < i THEN seq[j] ELSE seq[j + 1]]

\* The awaited call of task i settles and the handler runs to its next
\* await or to its end.
handshakeStep(c, i, rollback) ==
    LET t == c.tasks[i]
        rest == Without(c.tasks, i)
    IN IF ~CallSucceeds(c, t, rollback) THEN [c EXCEPT !.tasks = rest]
       ELSE LET p == PeerOf(c, t.gen)
                c1 == [c EXCEPT !.peersRef[p] = Negotiated(@, t)]
            IN IF NextCall(t) \in {"emit", "return"} THEN [c1 EXCEPT !.tasks = rest]
               ELSE [c1 EXCEPT !.tasks = Await(rest, [t EXCEPT !.step = NextCall(t)])]

\* socket.emit('relaySessionDescription', ...) of that step: the local
\* description, addressed to the peer of the connection.
HandshakeEmits_OffersOnly(c, i, rollback) ==
    IF CallSucceeds(c, c.tasks[i], rollback) /\ c.tasks[i].step = "setLocalOffer"
    THEN << [event |-> "relaySessionDescription", peer_id |-> c.tasks[i].peer,
             session_description |-> "offer"] >>
    ELSE << >>

HandshakeEmits(c, i, rollback) ==
    LET t == c.tasks[i]
    IN IF CallSucceeds(c, t, rollback) /\ NextCall(t) = "emit"
       THEN << [event |-> "relaySessionDescription", peer_id |-> t.peer,
                session_description |-> IF t.step = "setLocalOffer" THEN "offer"
                                        ELSE "answer"] >>
       ELSE << >>

\* replaceTrack calls that reach getUserMedia in one run.
MaxSwaps == 2

\* toggleAudio, toggleVideo: the track of the local stream is flipped and
\* the mute flag is set from the track; nothing happens without a stream.
toggleMute(c, k) ==
    IF c.localStreamRef = NullRef THEN c
    ELSE [c EXCEPT !.local[k].enabled = ~@, !.muted[k] = c.local[k].enabled]

\* Object.values(peersRef.current): the connections in the order of their
\* insertion.
PeerValues(c) ==
    LET S == OpenGens(c)
    IN CHOOSE q \in [1..Cardinality(S) -> S] :
           \A i, j \in 1..Cardinality(S) : i < j => q[i] < q[j]

\* The loop of replaceTrack up to its next await: a connection without a
\* sender of the kind is passed over, sender.replaceTrack is awaited on the
\* first other one.
RECURSIVE NextSender(_, _, _)
NextSender(c, todo, k) ==
    IF todo = <<>> THEN <<>>
    ELSE IF /\ Head(todo) \in OpenGens(c)
            /\ c.peersRef[PeerOf(c, Head(todo))].senders[k] = NoTrack
         THEN NextSender(c, Tail(todo), k)
         ELSE todo

\* The loop goes on over todo, and replaceTrack returns when it is empty.
SwapLoop(c, todo) ==
    LET rest == NextSender(c, todo, c.swap.kind)
    IN IF rest = <<>> THEN [c EXCEPT !.swap = NoSwap]
       ELSE [c EXCEPT !.swap.phase = "replacing", !.swap.todo = rest]

\* The mute flag the new track is set from: the one the closure of the
\* running call holds, which is the flag at the time of the call.
SwapMuteFlag(c) == c.swap.captured

\* replaceTrack up to getUserMedia: it returns at once without a stream.
replaceTrack(c, k) ==
    IF c.localStreamRef = NullRef THEN c
    ELSE [c EXCEPT !.swaps = @ + 1,
                   !.swap = [NoSwap EXCEPT !.phase = "acquiring", !.kind = k,
                                           !.captured = c.muted[k]]]

\* replaceTrack after getUserMedia: the old track leaves the local stream
\* and is stopped, the new one enters it and is enabled from the mute flag,
\* and the loop over the connections starts.  Without a local stream the
\* read of its tracks throws and the catch ends the call.
swapAcquired(c) ==
    IF c.localStreamRef = NullRef THEN [c EXCEPT !.swap = NoSwap]
    ELSE LET k == c.swap.kind
             c1 == [c EXCEPT !.local[k] = [id |-> c.swaps, enabled |-> ~SwapMuteFlag(c)],
                             !.swap.track = c.swaps,
                             !.swap.snapshot = PeerValues(c)]
         IN SwapLoop(c1, PeerValues(c))

\* The awaited sender.replaceTrack settles.  On a connection that is still
\* open the sender carries the new track and the loop goes on.  On a
\* connection closed in the meantime the call fails or is never answered,
\* and the loop ends there, or it is answered and the loop goes on.
swapReplaced(c, goesOn) ==
    LET g == Head(c.swap.todo)
        k == c.swap.kind
    IN IF g \in OpenGens(c)
       THEN SwapLoop([c EXCEPT !.peersRef[PeerOf(c, g)].senders[k] = c.swap.track],
                     Tail(c.swap.todo))
       ELSE IF goesOn THEN SwapLoop(c, Tail(c.swap.todo))
            ELSE [c EXCEPT !.swap = NoSwap]

ClientStep(op, c) ==
    /\ client' = c
    /\ lastOp' = op
    /\ UNCHANGED relayVars
    /\ UNCHANGED <<room, mesh>>

\* socket.on('connect'): the buffered packets go out, then setupLocalMedia.
OnConnect ==
    /\ client.socket \in {"opening", "reconnecting"}
    /\ client.localStreamRef = NullRef => client.acquisitions < MaxAcquisitions
    /\ LET c1 == [client EXCEPT !.socket = "connected", !.sendBuffer = 0]
           c2 == IF client.sendBuffer > 0 THEN JoinSent(c1) ELSE c1
       IN ClientStep([op |-> "connect"], setupLocalMedia(c2))

\* getUserMedia resolves: the stream becomes the local stream and
\* enumerateDevices is awaited.
MediaResolved ==
    /\ client.pendingMedia > 0
    /\ ClientStep([op |-> "mediaResolved", stream |-> Len(client.streams) + 1],
                  [client EXCEPT
                      !.streams = Append(@, [stopped |-> FALSE, late |-> client.left]),
                      !.localStreamRef = Len(client.streams) + 1,
                      !.local = FreshLocal,
                      !.pendingMedia = @ - 1,
                      !.pendingJoin = @ + 1])

\* getUserMedia rejects: the error is logged and alerted, setupLocalMedia
\* returns and the connect handler emits join.
MediaRejected ==
    /\ client.pendingMedia > 0
    /\ ClientStep([op |-> "mediaRejected"],
                  EmitJoin([client EXCEPT !.failed = TRUE, !.pendingMedia = @ - 1]))

\* enumerateDevices returns: setupLocalMedia returns and the connect handler
\* emits join.
DevicesEnumerated ==
    /\ client.pendingJoin > 0
    /\ ClientStep([op |-> "devicesEnumerated"],
                  EmitJoin([client EXCEPT !.pendingJoin = @ - 1]))

\* socket.on('disconnect') for a connection the transport or the server
\* ended; the socket then reconnects by itself.
OnDisconnect ==
    /\ client.socket = "connected"
    /\ ClientStep([op |-> "disconnect", links |-> DOMAIN client.peersRef,
                   stream |-> client.localStreamRef],
                  Cleanup([client EXCEPT !.socket = "reconnecting", !.joined = FALSE,
                                        !.lost = TRUE]))

OnAddPeer(peerId, offer) ==
    /\ client.socket = "connected" /\ client.joined
    /\ peerId \notin DOMAIN client.peersRef => client.created < MaxLinks
    /\ ClientStep([op |-> "addPeer", peer_id |-> peerId, should_create_offer |-> offer],
                  handleAddPeer(client, peerId, offer))

OnRemovePeer(peerId) ==
    /\ client.socket = "connected" /\ client.joined
    /\ ClientStep([op |-> "removePeer", peer_id |-> peerId,
                   links |-> DOMAIN client.peersRef],
                  handleRemovePeer(client, peerId))

OnSessionDescription(peerId, desc) ==
    /\ client.socket = "connected"
    /\ ClientStep([op |-> "sessionDescription", peer_id |-> peerId,
                   session_description |-> desc,
                   emits |-> SessionDescriptionEmits(client, peerId, desc)],
                  handleSessionDescription(client, peerId, desc))

OnIceCandidate(peerId, cand) ==
    /\ client.socket = "connected"
    /\ ClientStep([op |-> "iceCandidate", peer_id |-> peerId, ice_candidate |-> cand],
                  handleIceCandidate(client, peerId, cand))

\* The Leave button, confirmed.
OnLeave ==
    /\ ~client.left
    /\ ClientStep([op |-> "leave", links |-> DOMAIN client.peersRef,
                   stream |-> client.localStreamRef, socket |-> client.socket],
                  handleLeave(client))

\* socket.on('addPeer'), socket.on('sessionDescription') and the handshake
\* with its awaits as steps of their own.
AddPeerArrives(peerId, offer) ==
    /\ client.socket = "connected" /\ client.joined
    /\ peerId \notin DOMAIN client.peersRef => client.created < MaxLinks
    /\ offer => Len(client.tasks) < MaxTasks
    /\ ClientStep([op |-> "addPeer", peer_id |-> peerId, should_create_offer |-> offer],
                  addPeerCalled(client, peerId, offer))

SessionDescriptionArrives(peerId, desc) ==
    /\ client.socket = "connected"
    /\ Len(client.tasks) < MaxTasks
    /\ ClientStep([op |-> "sessionDescription", peer_id |-> peerId,
                   session_description |-> desc, emits |-> << >>],
                  sessionDescriptionCalled(client, peerId, desc))

\* The calls on one connection settle in the order in which they were made.
HandshakeStep(i, rollback) ==
    /\ i \in 1..Len(client.tasks)
    /\ \A j \in 1..(i - 1) : client.tasks[j].gen # client.tasks[i].gen
    /\ ClientStep([op |-> "handshake", task |-> client.tasks[i],
                   closed |-> client.tasks[i].gen \notin OpenGens(client),
                   state |-> IF client.tasks[i].gen \in OpenGens(client)
                             THEN client.peersRef[PeerOf(client, client.tasks[i].gen)].signaling
                             ELSE "closed",
                   uncaught |-> /\ ~CallSucceeds(client, client.tasks[i], rollback)
                                /\ ~Caught(client.tasks[i]),
                   emits |-> HandshakeEmits(client, i, rollback)],
                  handshakeStep(client, i, rollback))

\* The mute button of either kind.
OnToggle(k) ==
    /\ ClientStep([op |-> "toggle", kind |-> k], toggleMute(client, k))

\* A device is chosen in the settings while no swap is running.
OnReplaceTrack(k) ==
    /\ client.swap.phase = "idle"
    /\ client.swaps < MaxSwaps
    /\ ClientStep([op |-> "replaceTrack", kind |-> k], replaceTrack(client, k))

\* getUserMedia of the running swap resolves.
SwapAcquired ==
    /\ client.swap.phase = "acquiring"
    /\ ClientStep([op |-> "swapAcquired", kind |-> client.swap.kind,
                   track |-> client.swaps,
                   applied |-> client.localStreamRef # NullRef,
                   snapshot |-> OpenGens(client)],
                  swapAcquired(client))

\* getUserMedia of the running swap rejects: the catch logs the error.
SwapRejected ==
    /\ client.swap.phase = "acquiring"
    /\ ClientStep([op |-> "swapRejected"], [client EXCEPT !.swap = NoSwap])

\* The sender.replaceTrack the loop awaits settles.
SwapReplaced(goesOn) ==
    /\ client.swap.phase = "replacing"
    /\ ClientStep([op |-> "swapReplaced", kind |-> client.swap.kind,
                   track |-> client.swap.track,
                   applied |-> TRUE,
                   snapshot |-> {client.swap.snapshot[i] :
                                    i \in 1..Len(client.swap.snapshot)}],
                  swapReplaced(client, goesOn))

----------------------------------------------------------------------------
\* The relay and the components of the members of one room, end to end.
\* Every member runs the component above.  What the relay emits to a socket
\* reaches its component in the order of the emits.  What a component
\* emits is handled by the relay in the step of the emit: the relay's
\* handler reads nothing of the component, and the messages of one socket
\* reach it in their order.  The candidates the connections gather are
\* left out: no handler of the handshake reads them.

\* Members that connect in one run, and members that leave in it.
MaxMembers == 3
MaxDepartures == 1

MeshRoom == "r1"

\* A component whose socket is connected and whose local stream is held:
\* the connect handler has run setupLocalMedia and emits join.  Of the
\* component only what the handlers of addPeer, removePeer and
\* sessionDescription read and write is kept.
ReadyClient ==
    [localStreamRef |-> 1,
     local |-> FreshLocal,
     failed |-> FALSE,
     peersRef |-> << >>,
     created |-> 0,
     released |-> << >>,
     tasks |-> << >>]

\*   clients   socket id -> the component behind that socket
\*   down      socket id -> the messages the relay has emitted to it
\*   order     history: the ids in the order in which their joins were accepted
\*   gone      history: the members that parted or disconnected
\*   sent      history: the descriptions the components have emitted
\*   resent    history: those emitted more than once
MeshInit ==
    [clients |-> << >>, down |-> << >>, order |-> << >>,
     gone |-> {}, sent |-> {}, resent |-> {}]

\* socket.emit of the relay: every message goes to the socket it names.
RECURSIVE Route(_, _)
Route(m, msgs) ==
    IF msgs = << >> THEN m
    ELSE LET msg == Head(msgs)
         IN Route(IF msg.to \in DOMAIN m.down
                  THEN [m EXCEPT !.down[msg.to] = Append(@, msg)]
                  ELSE m,
                  Tail(msgs))

\* A browser opens the page: the relay accepts the socket and the
\* component acquires its media.
MeshConnect ==
    /\ nextConn <= MaxMembers
    /\ ConnectionHandler
    /\ mesh' = [mesh EXCEPT !.clients = @ @@ (SocketId(nextConn) :> ReadyClient),
                            !.down = @ @@ (SocketId(nextConn) :> << >>)]
    /\ UNCHANGED <<room, client>>

\* The join the component emits after connect.
MeshJoin(s) ==
    /\ s \in DOMAIN mesh.clients
    /\ ~Has(mesh.order, s)
    /\ JoinHandler(s, MeshRoom)
    /\ mesh' = Route([mesh EXCEPT !.order = Append(@, s)], emitted')
    /\ UNCHANGED <<room, client>>

\* A member parts from the room and stays connected.
MeshPart(s) ==
    /\ s \in DOMAIN mesh.clients
    /\ Has(mesh.order, s)
    /\ Cardinality(mesh.gone) < MaxDepartures
    /\ s \notin mesh.gone
    /\ PartHandler(s, MeshRoom)
    /\ mesh' = Route([mesh EXCEPT !.gone = @ \cup {s}], emitted')
    /\ UNCHANGED <<room, client>>

\* The browser of a member goes away and the relay sees the disconnect.
MeshDisconnect(s) ==
    /\ s \in DOMAIN mesh.clients
    /\ Cardinality(mesh.gone \ {s}) < MaxDepartures
    /\ DisconnectHandler(s)
    /\ LET rest == DOMAIN mesh.clients \ {s}
       IN mesh' = Route([mesh EXCEPT !.clients = [q \in rest |-> @[q]],
                                     !.down = [q \in rest |-> @[q]],
                                     !.gone = @ \cup {s}],
                        emitted')
    /\ UNCHANGED <<room, client>>

\* A component receives the next message of its socket and runs the
\* handler up to its first await.
MeshReceived(c, msg) ==
    CASE msg.event = "addPeer" -> addPeerCalled(c, msg.peer_id, msg.should_create_offer)
      [] msg.event = "removePeer" -> handleRemovePeer(c, msg.peer_id)
      [] msg.event = "sessionDescription" ->
           sessionDescriptionCalled(c, msg.peer_id, msg.session_description)

MeshDeliver(s) ==
    /\ s \in DOMAIN mesh.down
    /\ mesh.down[s] # << >>
    /\ mesh' = [mesh EXCEPT !.down[s] = Tail(@),
                            !.clients[s] = MeshReceived(@, Head(mesh.down[s]))]
    /\ lastOp' = [op |-> "deliver"]
    /\ UNCHANGED relayVars
    /\ UNCHANGED <<room, client>>

\* The awaited call of task i settles and so do, one after the other, the
\* calls its handler makes next on the connection, as long as no other
\* handler awaits a call on it: the handler runs to its end.  Between these
\* calls only a close() of the connection can come in, and it ends the
\* handler in its catch at whichever call it finds pending.
RECURSIVE handshakeRun(_, _, _)
handshakeRun(c, i, rollback) ==
    LET t == c.tasks[i]
        others == {j \in 1..Len(c.tasks) : j # i /\ c.tasks[j].gen = t.gen}
        before == {j \in 1..Len(c.tasks) : j # i /\ c.tasks[j].gen < t.gen}
    IN IF /\ CallSucceeds(c, t, rollback)
          /\ NextCall(t) \notin {"emit", "return"}
          /\ others = {}
       THEN handshakeRun(handshakeStep(c, i, rollback), Cardinality(before) + 1, rollback)
       ELSE [client |-> handshakeStep(c, i, rollback),
             emits |-> HandshakeEmits(c, i, rollback)]

Descriptions(s, emits) ==
    {[from |-> s, to |-> emits[k].peer_id, desc |-> emits[k].session_description] :
        k \in 1..Len(emits)}

\* A handshake handler of a component runs on; the description it emits at
\* its end is relayed.
MeshHandshakeStep(s, i, rollback) ==
    /\ s \in DOMAIN mesh.clients
    /\ i \in 1..Len(mesh.clients[s].tasks)
    /\ \A j \in 1..(i - 1) : mesh.clients[s].tasks[j].gen # mesh.clients[s].tasks[i].gen
    /\ LET r == handshakeRun(mesh.clients[s], i, rollback)
       IN IF r.emits = << >>
          THEN /\ lastOp' = [op |-> "handshake"]
               /\ mesh' = [mesh EXCEPT !.clients[s] = r.client]
               /\ UNCHANGED relayVars
          ELSE /\ RelaySessionDescriptionHandler(s, r.emits[1].peer_id,
                                                 r.emits[1].session_description)
               /\ mesh' = Route([mesh EXCEPT
                                    !.clients[s] = r.client,
                                    !.sent = @ \cup Descriptions(s, r.emits),
                                    !.resent = @ \cup (Descriptions(s, r.emits) \cap mesh.sent)],
                                emitted')
    /\ UNCHANGED <<room, client>>

----------------------------------------------------------------------------

Init ==
    /\ sockets = {}
    /\ channels = <<>>
    /\ sockChannels = [s \in SocketIds |-> <<>>]
    /\ nextConn = 1
    /\ emitted = <<>>
    /\ lastOp = [op |-> "init"]
    /\ thrown = FALSE
    /\ everJoined = {}
    /\ room = InitialContext
    /\ client = ClientInit
    /\ mesh = MeshInit

\* The room registry: connections, joins, parts and disconnects.
Next ==
    \/ Connection
    \/ \E s \in SocketIds : Disconnect(s)
    \/ \E s \in SocketIds, c \in RoomNames : Join(s, c)
    \/ \E s \in SocketIds, c \in RoomNames : Part(s, c)

Spec == Init /\ [][Next]_vars

\* The same handlers on a single room.
OneRoom == {"r1"}

NextOneRoom ==
    \/ Connection
    \/ \E s \in SocketIds : Disconnect(s)
    \/ \E s \in SocketIds, c \in OneRoom : Join(s, c)
    \/ \E s \in SocketIds, c \in OneRoom : Part(s, c)

SpecOneRoom == Init /\ [][NextOneRoom]_vars

\* The relay: the two relay handlers, with members in and out of one room,
\* and inherited property names among the channel names and peer ids.
RelayChannelNames == {"r1"} \cup InheritedKeys

NextRelay ==
    \/ Connection
    \/ \E s \in SocketIds : Disconnect(s)
    \/ \E s \in SocketIds, c \in RelayChannelNames : Join(s, c)
    \/ \E s \in SocketIds, c \in RelayChannelNames : Part(s, c)
    \/ \E s \in SocketIds, p \in PeerIdInputs, cand \in IceCandidates :
            RelayICECandidate(s, p, cand)
    \/ \E s \in SocketIds, p \in PeerIdInputs, desc \in SessionDescriptions :
            RelaySessionDescription(s, p, desc)

SpecRelay == Init /\ [][NextRelay]_vars

\* The room machine under every event in every state.
NextRoom ==
    \/ \E stream \in LocalStreams : MEDIA_READY(stream)
    \/ \E error \in ErrorMessages : MEDIA_ERROR(error)
    \/ SOCKET_CONNECTED
    \/ SOCKET_DISCONNECTED
    \/ \E peerId \in RemotePeerIds, stream \in RemoteStreams : PEER_ADDED(peerId, stream)
    \/ \E peerId \in RemotePeerIds : PEER_REMOVED(peerId)
    \/ \E peerId \in RemotePeerIds \cup {Null} : SPOTLIGHT(peerId)
    \/ TOGGLE_AUDIO
    \/ TOGGLE_VIDEO
    \/ LEAVE

SpecRoom == Init /\ [][NextRoom]_vars

\* The connection controller under every event order.
NextClient ==
    \/ OnConnect
    \/ MediaResolved
    \/ MediaRejected
    \/ DevicesEnumerated
    \/ OnDisconnect
    \/ \E peerId \in RemotePeerIds, offer \in BOOLEAN : OnAddPeer(peerId, offer)
    \/ \E peerId \in RemotePeerIds : OnRemovePeer(peerId)
    \/ \E peerId \in RemotePeerIds, desc \in SessionDescriptions :
            OnSessionDescription(peerId, desc)
    \/ \E peerId \in RemotePeerIds, cand \in RemoteCandidates :
            OnIceCandidate(peerId, cand)
    \/ OnLeave

SpecClient == Init /\ [][NextClient]_vars

\* Loss of the signaling connection, seen by the room machine and by the
\* controller: the events that lead a session to media, signaling and peers,
\* and the loss itself.
NextSignalingLoss ==
    \/ \E stream \in LocalStreams : MEDIA_READY(stream)
    \/ SOCKET_CONNECTED
    \/ \E peerId \in RemotePeerIds : PEER_ADDED(peerId, "v1")
    \/ SOCKET_DISCONNECTED
    \/ OnConnect
    \/ MediaResolved
    \/ MediaRejected
    \/ DevicesEnumerated
    \/ \E peerId \in RemotePeerIds : OnAddPeer(peerId, TRUE)
    \/ \E peerId \in RemotePeerIds : OnRemovePeer(peerId)
    \/ OnDisconnect

SpecSignalingLoss == Init /\ [][NextSignalingLoss]_vars

\* The controller with the handshake of its links step by step, in a room
\* where peers come and go, until the user leaves.
NextHandshake ==
    \/ OnConnect
    \/ MediaResolved
    \/ DevicesEnumerated
    \/ OnLeave
    \/ \E peerId \in RemotePeerIds, offer \in BOOLEAN : AddPeerArrives(peerId, offer)
    \/ \E peerId \in RemotePeerIds : OnRemovePeer(peerId)
    \/ \E peerId \in RemotePeerIds, desc \in {"offer", "answer"} :
          SessionDescriptionArrives(peerId, desc)
    \/ \E i \in 1..MaxTasks, rollback \in BOOLEAN : HandshakeStep(i, rollback)

SpecHandshake == Init /\ [][NextHandshake]_vars

\* The steps that deliver a message or complete an awaited call.
MeshProgress(s) ==
    \/ MeshJoin(s)
    \/ MeshDeliver(s)
    \/ \E i \in 1..(2 * MaxMembers), rollback \in BOOLEAN : MeshHandshakeStep(s, i, rollback)

\* Members join one room and nobody leaves; every message in flight is
\* delivered and every awaited call settles.
NextMeshJoin ==
    \/ MeshConnect
    \/ \E s \in SocketIds : MeshJoin(s)
    \/ \E s \in SocketIds : MeshDeliver(s)
    \/ \E s \in SocketIds, i \in 1..(2 * MaxMembers), rollback \in BOOLEAN :
          MeshHandshakeStep(s, i, rollback)

SpecMeshJoin ==
    Init /\ [][NextMeshJoin]_vars /\ \A s \in SocketIds : WF_vars(MeshProgress(s))

\* The same with members that part or disconnect at any time.
NextMesh ==
    \/ MeshConnect
    \/ \E s \in SocketIds : MeshJoin(s)
    \/ \E s \in SocketIds : MeshDeliver(s)
    \/ \E s \in SocketIds, i \in 1..(2 * MaxMembers), rollback \in BOOLEAN :
          MeshHandshakeStep(s, i, rollback)
    \/ \E s \in SocketIds : MeshPart(s)
    \/ \E s \in SocketIds : MeshDisconnect(s)

SpecMesh ==
    Init /\ [][NextMesh]_vars /\ \A s \in SocketIds : WF_vars(MeshProgress(s))

\* Members join and drop out as the component does it: the component never
\* sends part, a member leaves the room by the disconnect of its socket.
NextMeshDrop ==
    \/ MeshConnect
    \/ \E s \in SocketIds : MeshJoin(s)
    \/ \E s \in SocketIds : MeshDeliver(s)
    \/ \E s \in SocketIds, i \in 1..(2 * MaxMembers), rollback \in BOOLEAN :
          MeshHandshakeStep(s, i, rollback)
    \/ \E s \in SocketIds : MeshDisconnect(s)

SpecMeshDrop ==
    Init /\ [][NextMeshDrop]_vars /\ \A s \in SocketIds : WF_vars(MeshProgress(s))

\* The controller with its mute buttons and its device selectors, in a
\* room where peers come and go.
NextSwap ==
    \/ OnConnect
    \/ MediaResolved
    \/ DevicesEnumerated
    \/ OnDisconnect
    \/ \E peerId \in RemotePeerIds, offer \in BOOLEAN : OnAddPeer(peerId, offer)
    \/ \E peerId \in RemotePeerIds : OnRemovePeer(peerId)
    \/ \E k \in Kinds : OnToggle(k)
    \/ \E k \in Kinds : OnReplaceTrack(k)
    \/ SwapAcquired
    \/ SwapRejected
    \/ \E goesOn \in BOOLEAN : SwapReplaced(goesOn)

SpecSwap == Init /\ [][NextSwap]_vars

----------------------------------------------------------------------------
\* Properties of the relay.

\* Number of elements of seq that pass Test.
Count(seq, Test(_)) == Cardinality({i \in 1..Len(seq) : Test(seq[i])})
\* Number of emit calls in em of the given event to `to` naming `peer`.
Emits(em, ev, to, peer) ==
    Count(em, LAMBDA e : e.event = ev /\ e.to = to /\ e.peer_id = peer)
\* Number of emit calls in em to `to`.
EmitsTo(em, to) == Count(em, LAMBDA e : e.to = to)
\* Number of addPeer calls in em to `to` naming `peer` with the given flag.
Offers(em, to, peer, flag) ==
    Count(em, LAMBDA e : /\ e.event = "addPeer" /\ e.to = to /\ e.peer_id = peer
                         /\ e.should_create_offer = flag)

InRoom(ch, c, s) == c \in DOMAIN ch /\ Has(ch[c], s)
RoomsOf(ch, s) == {c \in RoomNames : s \in Members(ch, c)}
IsRelayOp(o) == o.op \in {"relayICECandidate", "relaySessionDescription"}

\* The ordered pairs of distinct members that a step makes co-present in a
\* room (both in the room after the step, not both before it).
BecomeCoPresent ==
    UNION {LET old == Members(channels, c)
               new == Members(channels', c)
           IN {pr \in new \X new :
                  pr[1] # pr[2] /\ ~(pr[1] \in old /\ pr[2] \in old)} :
           c \in RoomNames}

\* C1: in every step the addPeer events emitted are, each exactly once, the
\* ordered pairs (receiver, named peer) of the members the step makes
\* co-present in a room, so for every such pair of members there is one
\* event each way; and of the two events of a pair one carries
\* should_create_offer = true and the other false.
C1_OneInitiatorPerPair ==
    [][LET adds == {i \in 1..Len(emitted') : emitted'[i].event = "addPeer"}
           pairs == BecomeCoPresent
       IN
       /\ {<<emitted'[i].to, emitted'[i].peer_id>> : i \in adds} = pairs
       /\ Cardinality(adds) = Cardinality(pairs)
       /\ \A i \in adds : \E j \in adds :
             /\ emitted'[j].to = emitted'[i].peer_id
             /\ emitted'[j].peer_id = emitted'[i].to
             /\ emitted'[j].should_create_offer # emitted'[i].should_create_offer
      ]_vars

\* A join has just brought a third member into a room: two pairs, four events.
C1_Witness ==
    /\ lastOp.op = "join"
    /\ Cardinality(Members(channels, lastOp.channel)) = 3
    /\ Len(emitted) = 4

\* C2: an accepted join of s to room c emits, to each member m already in
\* c, exactly one event, addPeer naming s with should_create_offer = false,
\* and to s exactly one addPeer naming m with should_create_offer = true for
\* each such m and nothing else; nobody else receives anything, and a join to
\* an empty room emits nothing.
C2_JoinDiscovery ==
    [][lastOp'.op = "join" =>
        LET s == lastOp'.id
            c == lastOp'.channel
            old == Members(channels, c)
        IN (c \in RoomNames /\ s \notin old) =>
            /\ \A m \in old : /\ EmitsTo(emitted', m) = 1
                              /\ Offers(emitted', m, s, FALSE) = 1
                              /\ Offers(emitted', s, m, TRUE) = 1
            /\ EmitsTo(emitted', s) = Cardinality(old)
            /\ Len(emitted') = 2 * Cardinality(old)
            /\ old = {} => emitted' = <<>>
      ]_vars

\* The second member has just joined a room: one event each way.
C2_Witness ==
    /\ lastOp.op = "join"
    /\ Len(emitted) = 2
    /\ emitted[1] = AddPeer(emitted[2].peer_id, lastOp.id, FALSE)
    /\ emitted[2] = AddPeer(lastOp.id, emitted[1].to, TRUE)
    /\ Members(channels, lastOp.channel) = {lastOp.id, emitted[1].to}

\* C5: a join of s to a room s already belongs to emits nothing and leaves
\* the room registry and every socket's joined-room set unchanged.
C5_DuplicateJoinRejected ==
    [][(lastOp'.op = "join" /\ lastOp'.id \in Members(channels, lastOp'.channel)) =>
        /\ emitted' = <<>>
        /\ channels' = channels
        /\ sockChannels' = sockChannels
      ]_vars

\* A member of a room shared with another member has just asked to join it
\* again (an accepted join to that room would have emitted).
C5_Witness ==
    /\ lastOp.op = "join"
    /\ lastOp.id \in Members(channels, lastOp.channel)
    /\ Cardinality(Members(channels, lastOp.channel)) >= 2
    /\ emitted = <<>>

\* C6: a part of s from a room c it belongs to removes s from c's map, emits
\* to each remaining member exactly one event, removePeer naming s, and to s
\* exactly one removePeer per remaining member and nothing else; nobody
\* outside the room receives anything.
C6_PartFanout ==
    [][lastOp'.op = "part" =>
        LET s == lastOp'.id
            c == lastOp'.channel
            rest == Members(channels, c) \ {s}
        IN s \in Members(channels, c) =>
            /\ Members(channels', c) = rest
            /\ \A m \in rest : /\ EmitsTo(emitted', m) = 1
                               /\ Emits(emitted', "removePeer", m, s) = 1
                               /\ Emits(emitted', "removePeer", s, m) = 1
            /\ EmitsTo(emitted', s) = Cardinality(rest)
            /\ \A t \in SocketIds \ (rest \cup {s}) : EmitsTo(emitted', t) = 0
      ]_vars

\* A member has just parted from a room with one other member in it while a
\* third socket sits in another room.
C6_Witness ==
    /\ lastOp.op = "part"
    /\ Len(emitted) = 2
    /\ \E t \in sockets : /\ t \notin Members(channels, lastOp.channel) \cup {lastOp.id}
                          /\ RoomsOf(channels, t) # {}

\* C7: the disconnect of s emits, to every other member m of a room s had
\* joined, one removePeer naming s per room they shared, and leaves s in no
\* room's map and out of the member table, where a relay lookup no longer
\* finds it; after it no socket outside the member table is a key of a
\* room's map.
C7_DisconnectCleansUp ==
    [][lastOp'.op = "disconnect" =>
        \A s \in SocketIds : lastOp'.id = s =>
            /\ \A m \in SocketIds \ {s} :
                  Emits(emitted', "removePeer", m, s)
                    = Cardinality(RoomsOf(channels, s) \cap RoomsOf(channels, m))
            /\ RoomsOf(channels', s) = {}
            /\ s \notin sockets'
            /\ ~RelayTargetFound(s)'
            /\ \A t \in SocketIds \ sockets' : RoomsOf(channels', t) = {}
      ]_vars

\* A socket that shared one room with one member and another room with
\* another member has just disconnected.
C7_Witness ==
    /\ lastOp.op = "disconnect"
    /\ Len(emitted) = 4
    /\ RoomsOf(channels, emitted[1].to) \cap RoomsOf(channels, emitted[3].to) = {}
    /\ RoomsOf(channels, emitted[1].to) # {}
    /\ RoomsOf(channels, emitted[3].to) # {}

\* C8 as stated: a member id is a key of at most one room's map.
C8_AtMostOneRoom ==
    \A s \in SocketIds : Cardinality(RoomsOf(channels, s)) <= 1

\* C8, amended: a member id can be a key of several rooms' maps: a join to
\* a room by a member that already belongs to another room, and not to that
\* one, is accepted; the member is added to that room and keeps the others.
C8_SecondRoomAccepted ==
    [][lastOp'.op = "join" =>
        LET s == lastOp'.id
            c == lastOp'.channel
        IN (c \in RoomNames /\ RoomsOf(channels, s) # {} /\ s \notin Members(channels, c)) =>
            /\ RoomsOf(channels', s) = RoomsOf(channels, s) \cup {c}
            /\ Keys(sockChannels'[s]) = Keys(sockChannels[s]) \cup {c}
      ]_vars

\* A member of one room has just joined a second room.
C8_Witness ==
    /\ lastOp.op = "join"
    /\ Cardinality(RoomsOf(channels, lastOp.id)) = 2
    /\ sockChannels[lastOp.id][2] = lastOp.channel

\* C9 as stated: the registry holds a room entry only while the room has a
\* member.
C9_RoomExistsOnlyWhileOccupied ==
    \A c \in DOMAIN channels : channels[c] # <<>>

\* C3 as stated: a relay addressed to an id that is not a connected socket
\* emits nothing, changes no registry state and raises no error.
C3_RelayToUnknownIsNoOp ==
    [][(IsRelayOp(lastOp') /\ lastOp'.peer_id \notin sockets) =>
        /\ emitted' = <<>>
        /\ UNCHANGED <<sockets, channels, sockChannels>>
        /\ ~thrown'
      ]_vars

\* C4: a relay from s addressed to a connected socket p emits exactly one
\* message: to p, of the event of the relay's kind, naming s as peer_id and
\* carrying the payload given; whether or not s and p share a room.
C4_RelayDelivers ==
    [][(IsRelayOp(lastOp') /\ lastOp'.peer_id \in sockets) =>
        /\ Len(emitted') = 1
        /\ emitted'[1].to = lastOp'.peer_id
        /\ emitted'[1].peer_id = lastOp'.id
        /\ lastOp'.op = "relayICECandidate" =>
              /\ emitted'[1].event = "iceCandidate"
              /\ emitted'[1].ice_candidate = lastOp'.ice_candidate
        /\ lastOp'.op = "relaySessionDescription" =>
              /\ emitted'[1].event = "sessionDescription"
              /\ emitted'[1].session_description = lastOp'.session_description
      ]_vars

\* A member of a room has just relayed a session description to a socket
\* that is in no room.
C4_Witness ==
    /\ lastOp.op = "relaySessionDescription"
    /\ Len(emitted) = 1
    /\ lastOp.id # lastOp.peer_id
    /\ sockChannels[lastOp.id] # <<>>
    /\ sockChannels[lastOp.peer_id] = <<>>

\* C10 as stated: nothing relayed is delivered to a socket that has
\* connected and has not yet been added to a room.
C10_NoDeliveryBeforeJoin ==
    [][IsRelayOp(lastOp') =>
        \A i \in 1..Len(emitted') : emitted'[i].to \in everJoined
      ]_vars

\* C10, amended: a socket is visible to relay lookups from the moment its
\* connection is accepted until it disconnects: a relay addressed to p is
\* delivered exactly when p is connected, also when p has not yet been
\* added to a room.
C10_VisibleWhileConnected ==
    [][/\ lastOp'.op = "connection" => lastOp'.id \in sockets'
       /\ IsRelayOp(lastOp') => (emitted' # <<>> <=> lastOp'.peer_id \in sockets)
       /\ IsRelayOp(lastOp') => \A i \in 1..Len(emitted') : emitted'[i].to = lastOp'.peer_id
      ]_vars

\* A relay has just been delivered to a connected socket that no join has
\* added to a room yet.
C10_Witness ==
    /\ IsRelayOp(lastOp)
    /\ Len(emitted) = 1
    /\ emitted[1].to \notin everJoined
    /\ emitted[1].to # lastOp.id

----------------------------------------------------------------------------
\* Properties of the room machine.

NonFinalStates == {"requestingMedia", "connecting", "connected"}
\* The step sends an event of the given type to the actor.
Sends(type) == lastOp'.op = "send" /\ lastOp'.event.type = type
\* The last step sent an event of the given type to the actor.
Sent(type) == lastOp.op = "send" /\ lastOp.event.type = type

\* C12: LEAVE sent in requestingMedia, connecting or connected moves the
\* machine to left with an empty peerList, a null localStream whose former
\* tracks are all stopped, a null spotlightPeerId and a null error.
C12_LeaveCleansUp ==
    [][(Sends("LEAVE") /\ room.value \in NonFinalStates) =>
          /\ room'.value = "left"
          /\ room'.peerList = <<>>
          /\ room'.localStream = Null
          /\ room.localStream # Null =>
                room'.tracks.stream = room.localStream /\ room'.tracks.stopped
          /\ room'.spotlightPeerId = Null
          /\ room'.error = Null
      ]_vars

\* LEAVE has just ended a connected session that held a stream, a peer and
\* a spotlight.
C12_Witness ==
    /\ Sent("LEAVE")
    /\ lastOp.before.value = "connected"
    /\ lastOp.before.localStream # Null
    /\ lastOp.before.peerList # <<>>
    /\ lastOp.before.spotlightPeerId # Null
    /\ room.value = "left"

\* C13: once the machine is in disconnected, error or left, no event, the
\* root-level LEAVE included, changes the state value, a context field or
\* a track.
C13_FinalStatesAbsorb ==
    [][room.value \in FinalStates => room' = room]_vars

\* LEAVE has just been sent to an actor that had ended in error.
C13_Witness ==
    /\ Sent("LEAVE")
    /\ lastOp.before.value = "error"
    /\ room.value = "error"
    /\ room.error # Null

NoDuplicateIds(list) ==
    \A i, j \in 1..Len(list) : list[i].id = list[j].id => i = j

\* C14: PEER_ADDED for an id already in peerList leaves peerList as it is
\* (the first entry and its stream stay), and no step leaves two entries of
\* peerList with the same id.
C14_PeerAddedIdempotent ==
    [][/\ (Sends("PEER_ADDED") /\ lastOp'.event.peerId \in PeerIds(room.peerList)) =>
             room'.peerList = room.peerList
       /\ NoDuplicateIds(room'.peerList)
      ]_vars

\* PEER_ADDED has just named a listed peer with another stream than the
\* entry's.
C14_Witness ==
    /\ Sent("PEER_ADDED")
    /\ lastOp.before.value = "connected"
    /\ \E i \in 1..Len(lastOp.before.peerList) :
          /\ lastOp.before.peerList[i].id = lastOp.event.peerId
          /\ lastOp.before.peerList[i].stream # lastOp.event.stream
    /\ Len(room.peerList) = 2

\* C15: PEER_REMOVED(p) sent while spotlightPeerId = p sets spotlightPeerId
\* to null and removes p from peerList; PEER_REMOVED(q) for any other q
\* leaves spotlightPeerId as it is.
C15_RemoveClearsSpotlight ==
    [][Sends("PEER_REMOVED") =>
          IF room.spotlightPeerId = lastOp'.event.peerId
          THEN /\ room'.spotlightPeerId = Null
               /\ lastOp'.event.peerId \notin PeerIds(room'.peerList)
          ELSE room'.spotlightPeerId = room.spotlightPeerId
      ]_vars

\* PEER_REMOVED has just removed the listed, spotlighted peer.
C15_Witness ==
    /\ Sent("PEER_REMOVED")
    /\ lastOp.before.spotlightPeerId = lastOp.event.peerId
    /\ lastOp.event.peerId \in PeerIds(lastOp.before.peerList)
    /\ room.value = "connected"
    /\ room.spotlightPeerId = Null

\* C16: spotlightPeerId is null or the id of an entry of peerList.
C16_SpotlightReferencesPeer ==
    room.spotlightPeerId = Null \/ room.spotlightPeerId \in PeerIds(room.peerList)

----------------------------------------------------------------------------
\* Properties of the connection controller.

Links == DOMAIN client.peersRef

\* C11: a candidate that arrives for a link whose remote description is not
\* set yet is held back and applied once the description is set; no link
\* has had such a candidate refused or dropped.
C11_EarlyCandidateKept ==
    \A p \in Links : client.peersRef[p].rejected = {}

\* C17: every connection is closed exactly once, when its entry leaves
\* peersRef and not while it is still entered; removePeer for an id with no
\* entry changes nothing; removePeer releases just the named link; and the
\* repeated cleanup of a leave or a disconnect leaves the links and streams
\* as a single cleanup does.
C17_CloseOnce ==
    [][/\ \A i \in 1..Len(client'.released) : client'.released[i] = 1
       /\ \A p \in DOMAIN client'.peersRef : client'.peersRef[p].closeCalls = 0
       /\ lastOp'.op = "removePeer" =>
             IF lastOp'.peer_id \in Links
             THEN /\ client'.released = Append(client.released, 1)
                  /\ DOMAIN client'.peersRef = Links \ {lastOp'.peer_id}
             ELSE client' = client
       /\ lastOp'.op \in {"leave", "disconnect"} =>
             /\ client'.peersRef = <<>>
             /\ Len(client'.released) = Len(client.released) + Cardinality(Links)
             /\ client'.streams = Cleanup(client).streams
      ]_vars

\* A leave on a connected socket (cleanup three times over) has just closed
\* the one link left after an earlier removal.
C17_Witness ==
    /\ lastOp.op = "leave"
    /\ lastOp.socket = "connected"
    /\ Cardinality(lastOp.links) = 1
    /\ client.released = <<1, 1>>

\* C18: a stream that getUserMedia delivers after the user has left is
\* stopped and is not the local stream, no link carries it, and no join goes
\* out after the leave.
C18_LateStreamDiscarded ==
    /\ \A i \in 1..Len(client.streams) :
          client.streams[i].late =>
             /\ client.streams[i].stopped
             /\ client.localStreamRef # i
             /\ \A p \in Links : client.peersRef[p].localStream # i
    /\ ~client.joinSentAfterLeave

\* C19: once getUserMedia has failed the session goes no further: no join
\* is sent and no link is created.
C19_MediaFailureEndsSession ==
    client.failed =>
       /\ ~client.joinSentAfterFailure
       /\ \A p \in Links : ~client.peersRef[p].afterFailure

\* C20: SOCKET_DISCONNECTED in connecting or connected takes the machine to
\* disconnected with localStream null, its tracks stopped and peerList
\* empty; the controller's disconnect handler leaves localStreamRef null,
\* the tracks of the stream it held stopped, every link closed and peersRef
\* empty.
C20_SignalingLossCleansUp ==
    [][/\ (Sends("SOCKET_DISCONNECTED") /\ room.value \in {"connecting", "connected"}) =>
             /\ room'.value = "disconnected"
             /\ room'.localStream = Null
             /\ room'.tracks.stream = room.localStream /\ room'.tracks.stopped
             /\ room'.peerList = <<>>
       /\ lastOp'.op = "disconnect" =>
             /\ client'.localStreamRef = NullRef
             /\ client.localStreamRef # NullRef =>
                   client'.streams[client.localStreamRef].stopped
             /\ client'.peersRef = <<>>
             /\ Len(client'.released) = Len(client.released) + Cardinality(Links)
             /\ \A i \in 1..Len(client'.released) : client'.released[i] = 1
      ]_vars

\* The machine has ended in disconnected with its stream stopped, and the
\* controller's disconnect handler has just run with a stream and two links.
C20_Witness ==
    /\ lastOp.op = "disconnect"
    /\ lastOp.stream # NullRef
    /\ Cardinality(lastOp.links) = 2
    /\ client.streams[lastOp.stream].stopped
    /\ room.value = "disconnected"
    /\ room.tracks.stream # Null

----------------------------------------------------------------------------
\* Further properties of the room machine.

\* C28: MEDIA_READY or MEDIA_ERROR sent in any state but requestingMedia (a
\* second completion, or one arriving in connecting, connected or a final
\* state) changes neither the state value nor localStream nor error.
C28_MediaCompletionOnlyOnce ==
    [][((Sends("MEDIA_READY") \/ Sends("MEDIA_ERROR")) /\ room.value # "requestingMedia") =>
          /\ room'.value = room.value
          /\ room'.localStream = room.localStream
          /\ room'.error = room.error
      ]_vars

\* A second MEDIA_READY, carrying another stream, has just been sent to a
\* connected machine, which still holds the first.
C28_Witness ==
    /\ Sent("MEDIA_READY")
    /\ lastOp.before.value = "connected"
    /\ room.value = "connected"
    /\ room.localStream \notin {Null, lastOp.event.stream}

----------------------------------------------------------------------------
\* Further properties of the relay.

\* C29: a join handler runs as one step against every other handler: the
\* members it announces the joiner to, and the members it announces to the
\* joiner, are exactly the members of the room when the step begins, the
\* joiner is a member when it ends, and no other handler emits an addPeer.
\* So of two members of a room the later one has been announced to the
\* earlier and the earlier to the later.
C29_JoinFanoutAtomic ==
    [][LET adds == {i \in 1..Len(emitted') : emitted'[i].event = "addPeer"} IN
       IF lastOp'.op = "join"
       THEN LET s == lastOp'.id
                before == Members(channels, lastOp'.channel)
                after == Members(channels', lastOp'.channel)
            IN (s \notin before /\ s \in after) =>
                 /\ after = before \cup {s}
                 /\ {emitted'[i].to : i \in {j \in adds : emitted'[j].peer_id = s}} = before
                 /\ {emitted'[i].peer_id : i \in {j \in adds : emitted'[j].to = s}} = before
                 /\ \A i \in adds : emitted'[i].to = s \/ emitted'[i].peer_id = s
       ELSE adds = {}
      ]_vars

\* A second member has just joined a room and has been announced to the
\* first.
C29_Witness ==
    /\ lastOp.op = "join"
    /\ Len(channels[lastOp.channel]) = 2
    /\ channels[lastOp.channel][2] = lastOp.id
    /\ nextConn = 3
    /\ Len(emitted) = 2
    /\ emitted[1].to = channels[lastOp.channel][1]

----------------------------------------------------------------------------
\* Properties of the device swap.

\* C22: when a device swap has put its new track into the local stream, the
\* track is enabled exactly when the mute flag of its kind is off, also
\* when the flag was toggled while the swap was acquiring the device.
C22_SwapFollowsMuteFlag ==
    [][(lastOp'.op = "swapAcquired" /\ lastOp'.applied) =>
          client'.local[lastOp'.kind].enabled = ~client'.muted[lastOp'.kind]]_vars

\* C23: when a device swap that was applied returns, every link that
\* existed when it was applied and still exists sends the new track, the
\* local stream holds the new track, and no message has been sent.
C23_SwapReachesEveryLink ==
    [][(/\ lastOp'.op \in {"swapAcquired", "swapReplaced"}
        /\ lastOp'.applied
        /\ client'.swap.phase = "idle") =>
          /\ \A p \in DOMAIN client'.peersRef :
                (/\ client'.peersRef[p].gen \in lastOp'.snapshot
                 /\ client'.peersRef[p].senders[lastOp'.kind] # NoTrack) =>
                    client'.peersRef[p].senders[lastOp'.kind] = lastOp'.track
          /\ client'.localStreamRef # NullRef =>
                client'.local[lastOp'.kind].id = lastOp'.track
          /\ client'.joined = client.joined
          /\ client'.sendBuffer = client.sendBuffer]_vars

----------------------------------------------------------------------------
\* Properties of the handshake.

AnswerTo(peerId) ==
    [event |-> "relaySessionDescription", peer_id |-> peerId,
     session_description |-> "answer"]

\* C24: an offer that reaches a link in the stable state becomes its remote
\* description and the handler goes on to answer it; the answer, once
\* created and set, is sent exactly once and to the sender of the offer;
\* an answer that reaches a link whose offer is out becomes its remote
\* description; the handling of an answer sends nothing, and nothing but
\* the handling of an offer sends an answer.
C24_OfferAnsweredOnce ==
    [][lastOp'.op = "handshake" =>
          LET t == lastOp'.task
              conn == client'.peersRef[t.peer]
          IN /\ (t.step = "setRemoteDescription" /\ t.desc = "offer" /\ lastOp'.state = "stable") =>
                    /\ conn.remoteSet /\ conn.signaling = "have-remote-offer"
                    /\ Len(client'.tasks) = Len(client.tasks)
                    /\ \E i \in 1..Len(client'.tasks) :
                          client'.tasks[i] = [t EXCEPT !.step = "createAnswer"]
                    /\ lastOp'.emits = << >>
             /\ (t.step = "createAnswer" /\ lastOp'.state = "have-remote-offer") =>
                    /\ Len(client'.tasks) = Len(client.tasks)
                    /\ \E i \in 1..Len(client'.tasks) :
                          client'.tasks[i] = [t EXCEPT !.step = "setLocalAnswer"]
                    /\ lastOp'.emits = << >>
             /\ (t.step = "setLocalAnswer" /\ lastOp'.state = "have-remote-offer") =>
                    /\ lastOp'.emits = << AnswerTo(t.peer) >>
                    /\ conn.signaling = "stable"
                    /\ Len(client'.tasks) = Len(client.tasks) - 1
             /\ (t.step = "setRemoteDescription" /\ t.desc = "answer"
                   /\ lastOp'.state = "have-local-offer") =>
                    conn.remoteSet /\ conn.signaling = "stable"
             /\ t.desc = "answer" =>
                    /\ lastOp'.emits = << >>
                    /\ Len(client'.tasks) = Len(client.tasks) - 1
             /\ (\E i \in 1..Len(lastOp'.emits) : lastOp'.emits[i].session_description = "answer") =>
                    t.desc = "offer" /\ t.step = "setLocalAnswer"]_vars

\* An answer has just been sent for an offer, on a link that holds the
\* offer as its remote description.
C24_Witness ==
    /\ lastOp.op = "handshake"
    /\ lastOp.task.desc = "offer"
    /\ lastOp.emits = << AnswerTo(lastOp.task.peer) >>
    /\ lastOp.task.peer \in DOMAIN client.peersRef
    /\ client.peersRef[lastOp.task.peer].remoteSet
    /\ ~client.peersRef[lastOp.task.peer].offerer

\* C25: when an offer reaches a link that was created as offerer and whose
\* own offer is still out, the link is closed and leaves peersRef, no
\* answer is sent for it, and the other links stay as they are.
C25_UnexpectedOfferTearsDown ==
    [][(/\ lastOp'.op = "handshake"
        /\ lastOp'.task.step = "setRemoteDescription"
        /\ lastOp'.task.desc = "offer"
        /\ lastOp'.state = "have-local-offer") =>
          /\ lastOp'.task.peer \notin DOMAIN client'.peersRef
          /\ Len(client'.released) = Len(client.released) + 1
          /\ lastOp'.emits = << >>
          /\ \A i \in 1..Len(client'.tasks) : client'.tasks[i].gen # lastOp'.task.gen
          /\ \A p \in DOMAIN client.peersRef \ {lastOp'.task.peer} :
                p \in DOMAIN client'.peersRef /\ client'.peersRef[p] = client.peersRef[p]]_vars

\* C30: a handshake call that settles on a closed connection ends its
\* handler in the catch: nothing is thrown out of it, nothing is sent, the
\* links and the local stream stay as they are; and a description is only
\* ever sent for a connection that is open.
C30_ClosedMidHandshakeContained ==
    [][lastOp'.op = "handshake" =>
          /\ lastOp'.closed =>
                /\ ~lastOp'.uncaught
                /\ lastOp'.emits = << >>
                /\ client'.peersRef = client.peersRef
                /\ client'.localStreamRef = client.localStreamRef
                /\ client'.streams = client.streams
                /\ client'.local = client.local
                /\ Len(client'.tasks) = Len(client.tasks) - 1
          /\ lastOp'.emits # << >> => lastOp'.task.gen \in OpenGens(client)]_vars

\* setLocalDescription of an offer has settled on a connection closed in
\* the meantime, while another link is up with the local stream held.
C30_Witness ==
    /\ lastOp.op = "handshake"
    /\ lastOp.closed
    /\ lastOp.task.step = "setLocalOffer"
    /\ client.peersRef # << >>
    /\ client.localStreamRef # NullRef

----------------------------------------------------------------------------
\* Properties of the relay and the components together.

MeshMembers == DOMAIN mesh.clients

Pos(s) == CHOOSE i \in 1..Len(mesh.order) : mesh.order[i] = s

\* Nothing is in flight and no call is awaited.
MeshQuiet ==
    \A s \in MeshMembers : mesh.down[s] = << >> /\ mesh.clients[s].tasks = << >>

\* a and b are in the room together.
Present(a, b) ==
    /\ a # b
    /\ {a, b} \subseteq MeshMembers \ mesh.gone
    /\ Has(mesh.order, a) /\ Has(mesh.order, b)

\* The next message of b's socket is delivered in this step.
Delivered(b) ==
    /\ b \in MeshMembers
    /\ b \in DOMAIN mesh'.down
    /\ Len(mesh'.down[b]) = Len(mesh.down[b]) - 1

\* The positions in the messages on their way to b of the events of the
\* given name that name a.
InFlight(b, event, a) ==
    {i \in 1..Len(mesh.down[b]) :
        mesh.down[b][i].event = event /\ mesh.down[b][i].peer_id = a}

\* Whenever b holds an entry for a member a that left, or is about to be
\* told to add one, a removePeer naming a is on its way to b behind that.
DepartureAnnounced ==
    \A a \in mesh.gone : \A b \in MeshMembers \ {a} :
        (a \in DOMAIN mesh.clients[b].peersRef \/ InFlight(b, "addPeer", a) # {}) =>
            \E i \in InFlight(b, "removePeer", a) :
                \A j \in InFlight(b, "addPeer", a) : j < i

\* C21: when a member has parted or disconnected, a removePeer naming it
\* is on its way to every member that holds or is about to hold an entry
\* for it, so that with the messages delivered one after the other each of
\* them receives it; the removePeer a member receives names a member that
\* left, closes the link to it, once, takes its entry out and leaves the
\* other entries as they are.
C21_DepartureUnwinds ==
    [][/\ DepartureAnnounced'
       /\ \A b \in SocketIds :
            (Delivered(b) /\ Head(mesh.down[b]).event = "removePeer") =>
               LET a == Head(mesh.down[b]).peer_id
                   before == mesh.clients[b]
                   after == mesh'.clients[b]
               IN /\ a \in mesh.gone \/ b \in mesh.gone
                  /\ DOMAIN after.peersRef = DOMAIN before.peersRef \ {a}
                  /\ \A p \in DOMAIN after.peersRef : after.peersRef[p] = before.peersRef[p]
                  /\ after.released =
                        IF a \in DOMAIN before.peersRef
                        THEN Append(before.released, before.peersRef[a].closeCalls + 1)
                        ELSE before.released]_vars

\* A member has closed its link to a member that left and still holds
\* its link to a third one.
C21_Witness ==
    \E a \in mesh.gone, b \in MeshMembers \ mesh.gone :
        /\ lastOp.op = "deliver"
        /\ a \notin DOMAIN mesh.clients[b].peersRef
        /\ InFlight(b, "removePeer", a) = {}
        /\ mesh.clients[b].released = << 1 >>
        /\ mesh.clients[b].peersRef # << >>

\* C26: no description is sent twice; an offer is sent by the member that
\* joined later to the one that joined earlier, an answer by the earlier
\* one to the later one and only after that one's offer; and when nothing
\* is in flight any more, the later member of every pair that is in the
\* room together has sent its offer.
C26_OneOfferPerPair ==
    /\ mesh.resent = {}
    /\ \A m \in mesh.sent :
          /\ Has(mesh.order, m.from) /\ Has(mesh.order, m.to)
          /\ m.desc = "offer" => Pos(m.from) > Pos(m.to)
          /\ m.desc = "answer" =>
                /\ Pos(m.from) < Pos(m.to)
                /\ [from |-> m.to, to |-> m.from, desc |-> "offer"] \in mesh.sent
    /\ MeshQuiet =>
          \A a, b \in MeshMembers :
              (Present(a, b) /\ Pos(a) < Pos(b)) =>
                  [from |-> b, to |-> a, desc |-> "offer"] \in mesh.sent

\* Of three members in the room the second has sent its offer to the first
\* and its answer to the third.
C26_Witness ==
    /\ Len(mesh.order) = 3
    /\ mesh.gone = {}
    /\ [from |-> mesh.order[2], to |-> mesh.order[1], desc |-> "offer"] \in mesh.sent
    /\ [from |-> mesh.order[2], to |-> mesh.order[3], desc |-> "answer"] \in mesh.sent
    /\ mesh.resent = {}

\* The link of the pair a, b is up: a, who joined first, holds b's offer
\* and b holds a's answer, and both connections are stable.
PairUp(a, b) ==
    /\ b \in DOMAIN mesh.clients[a].peersRef
    /\ a \in DOMAIN mesh.clients[b].peersRef
    /\ LET ab == mesh.clients[a].peersRef[b]
           ba == mesh.clients[b].peersRef[a]
       IN /\ ~ab.offerer /\ ab.remoteSet /\ ab.signaling = "stable"
          /\ ba.offerer /\ ba.remoteSet /\ ba.signaling = "stable"

MeshConverged ==
    \A a, b \in MeshMembers :
        (a # b /\ Has(mesh.order, a) /\ Has(mesh.order, b) /\ Pos(a) < Pos(b)) => PairUp(a, b)

\* What is left to do for a message in flight and for an awaited call:
\* more than for anything its handler brings about.
MsgWork(msg) ==
    CASE msg.event = "addPeer" -> IF msg.should_create_offer THEN 14 ELSE 1
      [] msg.event = "removePeer" -> 1
      [] msg.event = "sessionDescription" ->
           IF msg.session_description = "offer" THEN 10 ELSE 5

TaskWork(t) ==
    CASE t.step = "createOffer" -> 13
      [] t.step = "setLocalOffer" -> 12
      [] t.step = "setRemoteDescription" -> IF t.desc = "offer" THEN 9 ELSE 4
      [] t.step = "createAnswer" -> 8
      [] t.step = "setLocalAnswer" -> 7

RECURSIVE MsgsWork(_)
MsgsWork(q) == IF q = << >> THEN 0 ELSE MsgWork(Head(q)) + MsgsWork(Tail(q))

RECURSIVE TasksWork(_)
TasksWork(q) == IF q = << >> THEN 0 ELSE TaskWork(Head(q)) + TasksWork(Tail(q))

RECURSIVE MembersWork(_)
MembersWork(S) ==
    IF S = {} THEN 0
    ELSE LET s == CHOOSE x \in S : TRUE
         IN (IF Has(mesh.order, s) THEN 0 ELSE 15 * MaxMembers + 1)
            + MsgsWork(mesh.down[s]) + TasksWork(mesh.clients[s].tasks)
            + MembersWork(S \ {s})

MeshWork == MembersWork(MeshMembers)

AllJoined == \A s \in MeshMembers : Has(mesh.order, s)

\* C27: when members join one room and nobody leaves, every step that
\* delivers a message or completes a call leaves less to do, such a step
\* is possible as long as a member has not joined, a message is in flight
\* or a call is awaited, and when none is, every pair of members has its
\* link up on both sides: with every message delivered and every call
\* completed in the end, the mesh is reached and stays.
C27_MeshConverges ==
    [][/\ lastOp'.op # "connection" => MeshWork' < MeshWork
       /\ ~thrown' /\ MeshMembers' \subseteq sockets'
       /\ (AllJoined' /\ MeshQuiet') => MeshConverged']_vars

\* Three members are in the room and all three pairs are linked.
C27_Witness ==
    /\ Len(mesh.order) = 3
    /\ Cardinality(MeshMembers) = 3
    /\ MeshConverged
    /\ MeshQuiet

----------------------------------------------------------------------------
\* Further properties of the room machine.

\* The step sends a toggle of the kind whose flag and track field are named.
ToggledOnly(flag, enabled) ==
    /\ room'[flag] = ~room[flag]
    /\ room'.tracks[enabled] = ~room'[flag]
    /\ room' = [room EXCEPT ![flag] = ~@, !.tracks[enabled] = ~room'[flag]]

\* C32: in connected, TOGGLE_AUDIO (TOGGLE_VIDEO) flips isAudioMuted
\* (isVideoMuted), sets enabled = not muted on the local audio (video)
\* tracks and changes nothing else: not the other kind's flag and tracks,
\* not peerList, not spotlightPeerId.  A second toggle of the same kind
\* right after the first one restores the flag and the tracks.  A toggle
\* sent in any other state changes nothing.
C32_ToggleFlipsItsKind ==
    [][/\ (Sends("TOGGLE_AUDIO") /\ room.value = "connected") =>
              ToggledOnly("isAudioMuted", "audioEnabled")
       /\ (Sends("TOGGLE_VIDEO") /\ room.value = "connected") =>
              ToggledOnly("isVideoMuted", "videoEnabled")
       /\ \A type \in {"TOGGLE_AUDIO", "TOGGLE_VIDEO"} :
             /\ (Sends(type) /\ room.value # "connected") => room' = room
             /\ (Sends(type) /\ Sent(type) /\ lastOp.before.value = "connected") =>
                    room' = lastOp.before
      ]_vars

\* A second TOGGLE_AUDIO in a row has just been sent in connected, with a
\* peer in the list, the spotlight set and the video muted.
C32_Witness ==
    /\ Sent("TOGGLE_AUDIO")
    /\ lastOp.before.value = "connected"
    /\ lastOp.before.isAudioMuted
    /\ ~lastOp.before.tracks.audioEnabled
    /\ ~room.isAudioMuted
    /\ room.tracks.audioEnabled
    /\ room.isVideoMuted
    /\ room.peerList # <<>>
    /\ room.spotlightPeerId # Null

\* C38: peerList is non-empty only in connected.  PEER_ADDED sent in
\* requestingMedia or connecting changes nothing, so the list is empty when
\* connected is entered, and every step that leaves connected empties it.
C38_PeerListOnlyWhileConnected ==
    [][/\ room'.value # "connected" => room'.peerList = <<>>
       /\ (Sends("PEER_ADDED") /\ room.value \in {"requestingMedia", "connecting"}) =>
              room' = room
       /\ (room.value # "connected" /\ room'.value = "connected") =>
              room'.peerList = <<>>
       /\ (room.value = "connected" /\ room'.value # "connected") =>
              room'.peerList = <<>>
      ]_vars

\* A session that held two peers has just been ended by the loss of the
\* socket.
C38_Witness ==
    /\ Sent("SOCKET_DISCONNECTED")
    /\ lastOp.before.value = "connected"
    /\ Len(lastOp.before.peerList) = 2
    /\ room.value = "disconnected"
    /\ room.peerList = <<>>

\* C39: localStream is non-null exactly in connecting and connected, and
\* error is non-null only in error.
C39_StreamAndErrorFollowState ==
    /\ room.localStream # Null <=> room.value \in {"connecting", "connected"}
    /\ room.error # Null => room.value = "error"

\* LEAVE has just ended a session that held a local stream.
C39_Witness ==
    /\ Sent("LEAVE")
    /\ lastOp.before.value \in {"connecting", "connected"}
    /\ lastOp.before.localStream # Null
    /\ room.value = "left"
    /\ room.localStream = Null

----------------------------------------------------------------------------
\* Further properties of the relay.

\* C33: the two membership indexes agree.  Room c is in member m's
\* socket.channels exactly if m is a key of channels[c], and every key of a
\* room's map is a socket of the member table.
C33_IndexesAgree ==
    /\ \A m \in SocketIds, c \in RoomNames :
          Has(sockChannels[m], c) <=> m \in Members(channels, c)
    /\ \A c \in DOMAIN channels : Keys(channels[c]) \subseteq sockets

\* A member of two rooms has just parted from one of them, where another
\* member stays behind.
C33_Witness ==
    /\ lastOp.op = "part"
    /\ emitted # <<>>
    /\ ~Has(sockChannels[lastOp.id], lastOp.channel)
    /\ sockChannels[lastOp.id] # <<>>
    /\ Members(channels, lastOp.channel) # {}

----------------------------------------------------------------------------
\* Further properties of the connection controller.

\* C31 as stated: once the signaling connection has been lost the session
\* is over.  No step after the loss calls getUserMedia, hands a join to the
\* relay or creates a peer connection, a new 'connect' of the socket
\* included.
C31_NoSessionAfterLoss ==
    [][client.lost =>
          /\ client'.acquisitions = client.acquisitions
          /\ client'.joined => client.joined
          /\ client'.created = client.created
      ]_vars

\* C36: at most one link per remote id.  An addPeer for an id that has an
\* entry changes nothing: no connection is created, no createOffer is
\* awaited whatever should_create_offer says, and the entry stays as it is.
\* Every connection created is the entry of one id or has been closed and
\* released.
C36_OneLinkPerPeer ==
    [][/\ (lastOp'.op = "addPeer" /\ lastOp'.peer_id \in DOMAIN client.peersRef) =>
              client' = client
       /\ client'.created = Cardinality(DOMAIN client'.peersRef) + Len(client'.released)
       /\ \A p, q \in DOMAIN client'.peersRef :
              p # q => client'.peersRef[p].gen # client'.peersRef[q].gen
      ]_vars

\* An addPeer asking for an offer has just arrived for an id whose link was
\* created on the answering side; no call is awaited.
C36_Witness ==
    /\ lastOp.op = "addPeer"
    /\ lastOp.should_create_offer
    /\ lastOp.peer_id \in DOMAIN client.peersRef
    /\ ~client.peersRef[lastOp.peer_id].offerer
    /\ client.created = 1
    /\ client.tasks = << >>

\* C37: a session description or a candidate from an id without an entry
\* is ignored: no entry is created, nothing is sent to the relay and the
\* component is as it was.
C37_UnknownSenderIgnored ==
    [][/\ (/\ lastOp'.op \in {"sessionDescription", "iceCandidate"}
           /\ lastOp'.peer_id \notin DOMAIN client.peersRef) =>
              client' = client
       /\ (/\ lastOp'.op = "sessionDescription"
           /\ lastOp'.peer_id \notin DOMAIN client.peersRef) =>
              lastOp'.emits = << >>
      ]_vars

\* An offer has just arrived from a peer whose link was removed before,
\* while the link of another peer is open.
C37_Witness ==
    /\ lastOp.op = "sessionDescription"
    /\ lastOp.session_description = "offer"
    /\ lastOp.peer_id \notin DOMAIN client.peersRef
    /\ DOMAIN client.peersRef # {}
    /\ client.released # << >>

----------------------------------------------------------------------------
\* Further properties of the relay and the components together.

\* Every description on its way to b comes from a member b holds an entry
\* for or is about to be told of by an addPeer ahead of it.
AddPeerComesFirst ==
    \A b \in MeshMembers :
      \A i \in {k \in 1..Len(mesh.down[b]) : mesh.down[b][k].event = "sessionDescription"} :
        LET a == mesh.down[b][i].peer_id
        IN \/ a \in DOMAIN mesh.clients[b].peersRef
           \/ \E j \in InFlight(b, "addPeer", a) : j < i

RoomMates(s) ==
    IF s \in Members(channels, MeshRoom) THEN Members(channels, MeshRoom) \ {s} ELSE {}

\* C35: once every message has been delivered and every handler has run to
\* its end, each connected component holds an entry for exactly the other
\* members of its room: none for a member that left, one for every member
\* that is there.
C35_LinksMatchRoom ==
    MeshQuiet =>
       \A s \in MeshMembers : DOMAIN mesh.clients[s].peersRef = RoomMates(s)

\* Three members had joined and one of them left; all is delivered and the
\* two that stay hold each other's entry and nothing else.
C35_Witness ==
    /\ MeshQuiet
    /\ Len(mesh.order) = 3
    /\ mesh.gone # {}
    /\ \E a, b \in MeshMembers \ mesh.gone :
          /\ a # b
          /\ DOMAIN mesh.clients[a].peersRef = {b}
          /\ DOMAIN mesh.clients[b].peersRef = {a}
          /\ mesh.clients[a].released # << >>

====
